---- MODULE Spec2Model ----
(***************************************************************************)
(* Model of the numerical core of mhealthx:                                *)
(*   - symbolic dynamic filtering (extractors/symbolic_dynamic_filtering)  *)
(*   - zero crossings (signals.py) and heel strikes (extractors/pyGait.py) *)
(*                                                                         *)
(* Conventions.  Samples are integers.  A quotient computed by numpy is a  *)
(* pair <<n, d>> standing for n/d; <<0, 0>> is numpy's nan (0/0 gives nan  *)
(* with a RuntimeWarning, it does not raise).  Python sequences are TLA+   *)
(* sequences, so Python index i is TLA+ index i + 1; PyIndex keeps         *)
(* Python's wrap-around of negative indices.  The code is read with the    *)
(* numpy it was written for (2015), which truncates a float used as an     *)
(* index.                                                                  *)
(***************************************************************************)
EXTENDS Integers, Sequences, FiniteSets, TLC

\* Bounds of the model.
MaxLen == 5
MaxVal == 3
MaxK == 3
GaitLen == 5
WalkLen == 7
AcLen == 3
GaitDataLen == 2
MaxStrikes == 4
MaxTick == 2
MaxTaps == 5
MaxCalls == 2
WdLen == 5
ScenarioCycles == 2
MaxAmplitude == 2
CiLen == 4
BfLen == 2
AttitudeLen == 2
PreheelLen == 4

VARIABLES
    data,               \* sdf_features: the signal
    number_of_symbols,  \* sdf_features: K
    pi_matrix_flag,     \* sdf_features: feature as vectorized morph matrix?
    partition,          \* result of max_entropy_partition
    symbols,            \* result of generate_symbol_sequence
    morph_matrix,       \* result of analyze_symbol_sequence
    pvec,               \* result of analyze_symbol_sequence
    feature,            \* result of sdf_features
    pc,                 \* position in sdf_features
    hs_input,           \* heel_strikes: the samples of data at the call
    hs_data,            \* heel_strikes: data (the caller's array)
    filtered,           \* heel_strikes: low-pass-filtered data
    transitions,        \* heel_strikes: positive-to-negative crossings
    strike_indices_smooth, \* heel_strikes: peaks of the filtered data
    interpeak,          \* heel_strikes: samples between peaks
    strike_indices,     \* heel_strikes: peaks of the data
    strikes,            \* heel_strikes: strike times
    hs_error,           \* heel_strikes: exception raised, or "none"
    hs_pc               \* position in heel_strikes

\* Python's None (and a local not assigned yet) where a number is expected:
\* a pair that is no quotient.
XNone == <<0, -1>>

sdfvars == <<data, number_of_symbols, pi_matrix_flag, partition, symbols,
             morph_matrix, pvec, feature, pc>>

hsvars == <<hs_input, hs_data, filtered, transitions, strike_indices_smooth,
            interpeak, strike_indices, strikes, hs_error, hs_pc>>

VARIABLES
    ac_data,            \* autocorrelate: data
    unbias,             \* autocorrelate: 0 (None), 1 or 2
    normalize,          \* autocorrelate: 0 (None), 1 or 2
    coefficients,       \* autocorrelate: the coefficients returned
    ac_error,           \* autocorrelate: exception raised, or "none"
    ac_pc               \* position in autocorrelate

acvars == <<ac_data, unbias, normalize, coefficients, ac_error, ac_pc>>

\* autocorrelate not called.
AcIdle ==
    /\ ac_data = <<>>
    /\ unbias = 0
    /\ normalize = 0
    /\ coefficients = <<>>
    /\ ac_error = "none"
    /\ ac_pc = "idle"

VARIABLES
    g_strikes,          \* gait: strikes, the heel strike times
    g_data,             \* gait: data
    duration,           \* gait: duration
    distance,           \* gait: distance, 0 for None
    step_durations,
    avg_step_duration,
    sd_step_durations,  \* kept as its square, the variance
    number_of_steps,
    cadence,
    strides,
    stride_durations,
    avg_number_of_strides,
    avg_stride_duration,
    sd_stride_durations, \* kept as the two variances it is the mean root of
    step_period,
    stride_period,
    step_regularity,
    stride_regularity,
    symmetry,
    distance_measures,  \* velocity, avg_step_length, avg_stride_length
    g_error,            \* gait: exception raised, or "none"
    g_pc                \* position in gait

gaitvars == <<g_strikes, g_data, duration, distance, step_durations,
              avg_step_duration, sd_step_durations, number_of_steps, cadence,
              strides, stride_durations, avg_number_of_strides,
              avg_stride_duration, sd_stride_durations, step_period,
              stride_period, step_regularity, stride_regularity, symmetry,
              distance_measures, g_error, g_pc>>

\* The locals of gait before they are assigned.
GaitUnset ==
    /\ step_durations = <<>>
    /\ avg_step_duration = XNone
    /\ sd_step_durations = XNone
    /\ number_of_steps = 0
    /\ cadence = XNone
    /\ strides = <<>>
    /\ stride_durations = <<>>
    /\ avg_number_of_strides = XNone
    /\ avg_stride_duration = XNone
    /\ sd_stride_durations = XNone
    /\ step_period = XNone
    /\ stride_period = XNone
    /\ step_regularity = XNone
    /\ stride_regularity = XNone
    /\ symmetry = XNone
    /\ distance_measures = <<>>
    /\ g_error = "none"

\* gait not called.
GaitIdle ==
    /\ g_strikes = <<>>
    /\ g_data = <<>>
    /\ duration = 0
    /\ distance = 0
    /\ GaitUnset
    /\ g_pc = "idle"

VARIABLES
    TapFeatures,        \* tapping.py: the attributes of the class TapFeatures
    tap_inputs,         \* the arguments of each call of compute_tap_features
    tap_returned,       \* what each call returned: the object, or "raised"
    tap_error           \* exception raised by the last call, or "none"

tapvars == <<TapFeatures, tap_inputs, tap_returned, tap_error>>

\* The class as defined: the features are not attributes yet.
UnsetFeatures ==
    [num_taps |-> XNone, num_taps_left |-> XNone, num_taps_right |-> XNone,
     time_rng |-> XNone, intertap_num |-> XNone]

\* compute_tap_features not called.
TapIdle ==
    /\ TapFeatures = UnsetFeatures
    /\ tap_inputs = <<>>
    /\ tap_returned = <<>>
    /\ tap_error = "none"

VARIABLES
    ax, ay, az,         \* walk_direction_preheel: the accelerometer axes
    stride_fraction,    \* walk_direction_preheel: argument, a quotient
    wd_decel,           \* walk_direction_preheel: decel, samples before a peak
    ipeaks,             \* walk_direction_preheel: peaks of data
    vectors,            \* walk_direction_preheel: mean deceleration vectors
    direction,          \* walk_direction_preheel: <<v, s>> for v / sqrt(s)
    wd_error,           \* walk_direction_preheel: exception, or "none"
    wd_pc               \* position in walk_direction_preheel

wdvars == <<ax, ay, az, stride_fraction, wd_decel, ipeaks, vectors, direction,
            wd_error, wd_pc>>

\* walk_direction_preheel not called.
WdIdle ==
    /\ ax = <<>>
    /\ ay = <<>>
    /\ az = <<>>
    /\ stride_fraction = XNone
    /\ wd_decel = 0
    /\ ipeaks = <<>>
    /\ vectors = <<>>
    /\ direction = <<<<>>, XNone>>
    /\ wd_error = "none"
    /\ wd_pc = "idle"

VARIABLES
    ci_data,            \* compute_interpeak: data
    ci_interpeak,       \* compute_interpeak: result
    ci_error,           \* compute_interpeak: exception raised, or "none"
    ci_pc               \* position in compute_interpeak

civars == <<ci_data, ci_interpeak, ci_error, ci_pc>>

\* compute_interpeak not called on its own.
CiIdle ==
    /\ ci_data = <<>>
    /\ ci_interpeak = 0
    /\ ci_error = "none"
    /\ ci_pc = "idle"

VARIABLES
    bf_data,            \* butter_lowpass_filter: data
    bf_sample_rate,     \* butter_lowpass_filter: sample_rate
    bf_cutoff,          \* butter_lowpass_filter: cutoff
    bf_y,               \* butter_lowpass_filter: result
    bf_error,           \* butter_lowpass_filter: exception raised, or "none"
    bf_pc               \* position in butter_lowpass_filter

bfvars == <<bf_data, bf_sample_rate, bf_cutoff, bf_y, bf_error, bf_pc>>

\* butter_lowpass_filter not called on its own.
BfIdle ==
    /\ bf_data = <<>>
    /\ bf_sample_rate = 0
    /\ bf_cutoff = 0
    /\ bf_y = <<>>
    /\ bf_error = "none"
    /\ bf_pc = "idle"

VARIABLES
    strategy,           \* "attitude" or "preheel": the projection called
    accel,              \* zip(ax, ay, az): the acceleration samples
    attitudes,          \* zip(uw, ux, uy, uz): the attitude quaternions
    directions,         \* result of walk_direction_attitude or _preheel
    projection_vectors, \* result of project_axes
    pj_error,           \* exception raised by the projection, or "none"
    pj_pc               \* position in project_walk_direction_*

pjvars == <<strategy, accel, attitudes, directions, projection_vectors,
            pj_error, pj_pc>>

\* project_walk_direction_attitude and _preheel not called.
PjIdle ==
    /\ strategy = "none"
    /\ accel = <<>>
    /\ attitudes = <<>>
    /\ directions = <<>>
    /\ projection_vectors = <<>>
    /\ pj_error = "none"
    /\ pj_pc = "idle"

\* The variables of the calls modelled after sdf_features and heel_strikes.
extvars == <<acvars, gaitvars, tapvars, wdvars, civars, bfvars, pjvars>>
ExtIdle == AcIdle /\ GaitIdle /\ TapIdle /\ WdIdle /\ CiIdle /\ BfIdle /\ PjIdle

----------------------------------------------------------------------------
\* Generic helpers: Python and numpy primitives.

\* seq[i] in Python, for -Len(seq) <= i < Len(seq).
PyIndex(seq, i) == IF i >= 0 THEN seq[i + 1] ELSE seq[Len(seq) + i + 1]

RECURSIVE Insert(_, _)
Insert(x, s) ==
    IF s = <<>> THEN <<x>>
    ELSE IF x <= Head(s) THEN <<x>> \o s
    ELSE <<Head(s)>> \o Insert(x, Tail(s))

\* np.sort: ascending order.
RECURSIVE np_sort(_)
np_sort(s) == IF s = <<>> THEN <<>> ELSE Insert(Head(s), np_sort(Tail(s)))

\* np.sum of a sequence of integers.
RECURSIVE np_sum(_)
np_sum(s) == IF s = <<>> THEN 0 ELSE Head(s) + np_sum(Tail(s))

\* np.zeros(n), np.zeros((n, n)).
RECURSIVE np_zeros(_)
np_zeros(n) == IF n = 0 THEN <<>> ELSE Append(np_zeros(n - 1), 0)
RECURSIVE Repeat(_, _)
Repeat(x, n) == IF n = 0 THEN <<>> ELSE Append(Repeat(x, n - 1), x)
np_zeros2(n) == Repeat(np_zeros(n), n)

\* numpy's elementwise x / y on floats: 0/0 is nan, anything else n/d.
Quot(n, d) == IF d = 0 THEN <<0, 0>> ELSE <<n, d>>
\* q = 1 (nan compares unequal to everything).
QuotIsOne(q) == q[2] # 0 /\ q[1] = q[2]
QuotEq(p, q) == p[2] # 0 /\ q[2] # 0 /\ p[1] * q[2] = q[1] * p[2]
QuotAdd(p, q) == IF p[2] = 0 \/ q[2] = 0 THEN <<0, 0>>
                 ELSE <<p[1] * q[2] + q[1] * p[2], p[2] * q[2]>>
QuotMul(p, q) == IF p[2] = 0 \/ q[2] = 0 THEN <<0, 0>>
                 ELSE <<p[1] * q[1], p[2] * q[2]>>
RECURSIVE QuotSum(_)
QuotSum(s) == IF s = <<>> THEN <<0, 1>> ELSE QuotAdd(Head(s), QuotSum(Tail(s)))

\* np.Inf against the integer samples of the model.
Inf == MaxVal + 1

----------------------------------------------------------------------------
\* symbolic_dynamic_filtering.py

\* Boundary ipart of the partition: data[np.floor(ipart * len_data / K) - 1]
\* on the sorted data.
\* Mutant: the 0-based index taken without the - 1.
PartitionIndexNoOffset(ipart, len_data, K) == (ipart * len_data) \div K

PartitionIndex(ipart, len_data, K) == ((ipart * len_data) \div K) - 1

max_entropy_partition(d, K) ==
    LET sorted == np_sort(d)
        len_data == Len(sorted)
        npartitions == K - 1
    IN [ipart \in 1..npartitions |->
            PyIndex(sorted, PartitionIndex(ipart, len_data, K))]

\* Inner loop of generate_symbol_sequence: first i2 (0-based) from `from`
\* with partition[i2] > x; the symbol is i2 + 1; 0 if the loop finds none.
\* Mutant: the comparison >= in place of >.
RECURSIVE FirstGreaterOrEqual(_, _, _)
FirstGreaterOrEqual(part, x, i2) ==
    IF i2 >= Len(part) THEN 0
    ELSE IF part[i2 + 1] >= x THEN i2 + 1
    ELSE FirstGreaterOrEqual(part, x, i2 + 1)

RECURSIVE FirstGreater(_, _, _)
FirstGreater(part, x, i2) ==
    IF i2 >= Len(part) THEN 0
    ELSE IF part[i2 + 1] > x THEN i2 + 1
    ELSE FirstGreater(part, x, i2 + 1)

generate_symbol_sequence(d, part) ==
    LET withInf == part \o <<Inf>>
    IN [i1 \in 1..Len(d) |-> FirstGreater(withInf, d[i1], 0)]

\* Mutant: the matrix indexed [origin, destination].
RECURSIVE CountTransitionsByOrigin(_, _, _, _, _)
CountTransitionsByOrigin(syms, isymbol, flag, mm, pv) ==
    IF isymbol >= Len(syms) THEN [morph_matrix |-> mm, pvec |-> pv]
    ELSE LET index1 == PyIndex(syms, isymbol - 1) - 1
             index2 == PyIndex(syms, isymbol) - 1
             pv2 == [pv EXCEPT ![index1 + 1] = @ + 1]
             mm2 == IF flag
                    THEN [mm EXCEPT ![index1 + 1][index2 + 1] = @ + 1]
                    ELSE mm
         IN CountTransitionsByOrigin(syms, isymbol + 1, flag, mm2, pv2)

\* Mutant: pvec counts the destination of each pair.
RECURSIVE CountTransitionsByDestination(_, _, _, _, _)
CountTransitionsByDestination(syms, isymbol, flag, mm, pv) ==
    IF isymbol >= Len(syms) THEN [morph_matrix |-> mm, pvec |-> pv]
    ELSE LET index1 == PyIndex(syms, isymbol - 1) - 1
             index2 == PyIndex(syms, isymbol) - 1
             pv2 == [pv EXCEPT ![index2 + 1] = @ + 1]
             mm2 == IF flag
                    THEN [mm EXCEPT ![index2 + 1][index1 + 1] = @ + 1]
                    ELSE mm
         IN CountTransitionsByDestination(syms, isymbol + 1, flag, mm2, pv2)

\* The counting loop of analyze_symbol_sequence from isymbol on: the state
\* of (morph_matrix, pvec) after the loop.
RECURSIVE CountTransitions(_, _, _, _, _)
CountTransitions(syms, isymbol, flag, mm, pv) ==
    IF isymbol >= Len(syms) THEN [morph_matrix |-> mm, pvec |-> pv]
    ELSE LET index1 == PyIndex(syms, isymbol - 1) - 1
             index2 == PyIndex(syms, isymbol) - 1
             pv2 == [pv EXCEPT ![index1 + 1] = @ + 1]
             mm2 == IF flag
                    THEN [mm EXCEPT ![index2 + 1][index1 + 1] = @ + 1]
                    ELSE mm
         IN CountTransitions(syms, isymbol + 1, flag, mm2, pv2)

\* Counts before normalization.
TransitionCounts(syms, number_of_states, flag) ==
    CountTransitions(syms, 1, flag, np_zeros2(number_of_states),
                     np_zeros(number_of_states))

\* pvec = pvec / np.sum(pvec)
NormalizeVector(pv) == [i \in 1..Len(pv) |-> Quot(pv[i], np_sum(pv))]

\* One row of the matrix after the normalization loop.
NormalizeRow(row, pv) ==
    IF np_sum(row) = 0 THEN pv
    ELSE [j \in 1..Len(row) |-> Quot(row[j], np_sum(row))]

analyze_symbol_sequence(syms, number_of_states, morph_matrix_flag) ==
    LET counts == TransitionCounts(syms, number_of_states, morph_matrix_flag)
        normed == NormalizeVector(counts.pvec)
        matrix == IF morph_matrix_flag
                  THEN [istate \in 1..number_of_states |->
                            NormalizeRow(counts.morph_matrix[istate], normed)]
                  ELSE [istate \in 1..number_of_states |->
                            [j \in 1..number_of_states |->
                                <<counts.morph_matrix[istate][j], 1>>]]
    IN [morph_matrix |-> matrix, pvec |-> normed]

\* np.transpose(m) and b.flatten() (row-major).
np_transpose(m) == [a \in 1..Len(m) |-> [b \in 1..Len(m) |-> m[b][a]]]
np_flatten(m) ==
    LET n == Len(m)
    IN [k \in 1..(n * n) |-> m[((k - 1) \div n) + 1][((k - 1) % n) + 1]]

\* Mutant: the matrix flattened without the transposition.
FeatureOfUntransposed(mm, pv, flag) == IF flag THEN np_flatten(mm) ELSE pv

\* The feature sdf_features returns from the analysis.
FeatureOf(mm, pv, flag) == IF flag THEN np_flatten(np_transpose(mm)) ELSE pv

----------------------------------------------------------------------------
\* sdf_features as a process: one step per call it makes.

Signals == UNION {[1..n -> 0..MaxVal] : n \in 1..MaxLen}

SdfInit ==
    /\ data \in Signals
    /\ number_of_symbols \in 2..MaxK
    /\ pi_matrix_flag \in BOOLEAN
    /\ partition = <<>>
    /\ symbols = <<>>
    /\ morph_matrix = <<>>
    /\ pvec = <<>>
    /\ feature = <<>>
    /\ pc = "start"

MaxEntropyPartition ==
    /\ pc = "start"
    /\ partition' = max_entropy_partition(data, number_of_symbols)
    /\ pc' = "partitioned"
    /\ UNCHANGED <<data, number_of_symbols, pi_matrix_flag, symbols,
                   morph_matrix, pvec, feature>>
    /\ UNCHANGED <<hsvars, extvars>>

GenerateSymbolSequence ==
    /\ pc = "partitioned"
    /\ symbols' = generate_symbol_sequence(data, partition)
    /\ pc' = "symbolized"
    /\ UNCHANGED <<data, number_of_symbols, pi_matrix_flag, partition,
                   morph_matrix, pvec, feature>>
    /\ UNCHANGED <<hsvars, extvars>>

AnalyzeSymbolSequence ==
    /\ pc = "symbolized"
    /\ LET r == analyze_symbol_sequence(symbols, number_of_symbols,
                                        pi_matrix_flag)
       IN /\ morph_matrix' = r.morph_matrix
          /\ pvec' = r.pvec
    /\ pc' = "analyzed"
    /\ UNCHANGED <<data, number_of_symbols, pi_matrix_flag, partition,
                   symbols, feature>>
    /\ UNCHANGED <<hsvars, extvars>>

SdfFeatures ==
    /\ pc = "analyzed"
    /\ feature' = FeatureOf(morph_matrix, pvec, pi_matrix_flag)
    /\ pc' = "done"
    /\ UNCHANGED <<data, number_of_symbols, pi_matrix_flag, partition,
                   symbols, morph_matrix, pvec>>
    /\ UNCHANGED <<hsvars, extvars>>

----------------------------------------------------------------------------
\* signals.py

\* Mutant: zero counted as positive.
PositiveOrZero(d) == [i \in 1..Len(d) |-> d[i] >= 0]

\* pos = data > 0
Positive(d) == [i \in 1..Len(d) |-> d[i] > 0]

\* np.nonzero(mask)[0] from 0-based index i on: the indices holding TRUE,
\* in increasing order.
RECURSIVE np_nonzero(_, _)
np_nonzero(mask, i) ==
    IF i >= Len(mask) THEN <<>>
    ELSE IF mask[i + 1] THEN <<i>> \o np_nonzero(mask, i + 1)
    ELSE np_nonzero(mask, i + 1)

\* crossings = (pos[:-1] & ~pos[1:]).nonzero()[0]
crossings_nonzero_pos2neg(d) ==
    LET pos == Positive(d)
        mask == [i \in 1..(Len(d) - 1) |-> pos[i] /\ ~pos[i + 1]]
    IN np_nonzero(mask, 0)

\* What scipy's butter and lfilter can return for the data: a sequence of
\* the same length, all zero when the data are (the filter is linear).  The
\* coefficients come from scipy, so the values are not derived here.
FilteredVals == {-1, 0, 1, 6}
butter_lowpass_filter(d) ==
    {f \in [1..Len(d) -> FilteredVals] :
        (\A i \in 1..Len(d) : d[i] = 0) => (\A i \in 1..Len(d) : f[i] = 0)}

\* fftfreq(n, d = 1/sample_rate)[i] * n / sample_rate: the signed bin number.
FftFreqBin(i, n) == IF i <= (n - 1) \div 2 THEN i ELSE i - n

\* np.round(n / d) for n >= 0, d > 0: halves go to the even neighbour.
RoundHalfEven(n, d) ==
    IF 2 * (n % d) < d THEN n \div d
    ELSE IF 2 * (n % d) > d THEN (n \div d) + 1
    ELSE IF (n \div d) % 2 = 0 THEN n \div d
    ELSE (n \div d) + 1

Abs(x) == IF x < 0 THEN -x ELSE x

\* compute_interpeak given imax_freq = np.argsort(f_signal)[-2], the index
\* scipy's rfft and numpy's argsort select.  sample_rate / freq is
\* n / |bin|; a zero frequency gives inf, and np.int(inf) raises.
InterpeakOf(imax_freq, n) ==
    IF FftFreqBin(imax_freq, n) = 0
    THEN [error |-> "OverflowError", value |-> 0]
    ELSE [error |-> "none",
          value |-> RoundHalfEven(n, Abs(FftFreqBin(imax_freq, n)))]

\* a + b sqrt(3) < c + d sqrt(3), for p = <<a, b>> and q = <<c, d>>.
SurdLess(p, q) ==
    LET da == p[1] - q[1]
        db == p[2] - q[2]
    IN IF da >= 0 /\ db >= 0 THEN FALSE
       ELSE IF da <= 0 /\ db <= 0 THEN TRUE
       ELSE IF da < 0 THEN da * da > 3 * db * db
       ELSE da * da < 3 * db * db

\* scipy.fftpack.rfft(d) times 2, for up to 4 samples: the packed array
\* [y(0), Re y(1), Im y(1), ..., Re y(n/2)] of y(j) = sum d[k] exp(-2 pi i
\* j k / n), every value as <<a, b>> for a + b sqrt(3).
rfft(d) ==
    IF Len(d) = 1 THEN <<<<2 * d[1], 0>>>>
    ELSE IF Len(d) = 2
    THEN <<<<2 * (d[1] + d[2]), 0>>, <<2 * (d[1] - d[2]), 0>>>>
    ELSE IF Len(d) = 3
    THEN <<<<2 * (d[1] + d[2] + d[3]), 0>>,
           <<2 * d[1] - d[2] - d[3], 0>>,
           <<0, d[3] - d[2]>>>>
    ELSE <<<<2 * (d[1] + d[2] + d[3] + d[4]), 0>>,
           <<2 * (d[1] - d[3]), 0>>,
           <<2 * (d[4] - d[2]), 0>>,
           <<2 * (d[1] - d[2] + d[3] - d[4]), 0>>>>

\* np.argsort(f)[-2]: the 0-based indices an ascending sort can put in the
\* last place but one (the order of equal values is the sort's choice).
ArgsortSecondLast(f) ==
    {i \in 0..(Len(f) - 1) :
        /\ Cardinality({j \in 0..(Len(f) - 1) :
                            SurdLess(f[i + 1], f[j + 1])}) <= 1
        /\ \E j \in 0..(Len(f) - 1) :
               j # i /\ ~SurdLess(f[j + 1], f[i + 1])}

\* The outcomes of compute_interpeak(data, sample_rate): [-2] of a
\* one-element argsort raises IndexError.  The transform is computed up to
\* 4 samples; beyond, imax_freq is any index.
compute_interpeak(d) ==
    IF Len(d) < 2 THEN {[error |-> "IndexError", value |-> 0]}
    ELSE {InterpeakOf(imax_freq, Len(d)) :
             imax_freq \in IF Len(d) <= 4 THEN ArgsortSecondLast(rfft(d))
                           ELSE 0..(Len(d) - 1)}

----------------------------------------------------------------------------
\* Floating-point values beyond the quotients above: <<n, d>> with d > 0 is
\* n/d, <<0, 0>> is nan, <<1, 0>> is inf and <<-1, 0>> is -inf.  Arithmetic
\* is exact on the finite values (no rounding error, no signed zero).
XNan == <<0, 0>>
RECURSIVE GCD(_, _)
GCD(a, b) == IF b = 0 THEN a ELSE GCD(b, a % b)
\* n/d in lowest terms, for d > 0.
Reduce(n, d) ==
    LET g == GCD(IF n < 0 THEN -n ELSE n, d) IN <<n \div g, d \div g>>
Sgn(x) == IF x > 0 THEN 1 ELSE IF x < 0 THEN -1 ELSE 0
IsNan(p) == p[2] = 0 /\ p[1] = 0
IsInf(p) == p[2] = 0 /\ p[1] # 0
IsFinite(p) == p[2] # 0
XAdd(p, q) ==
    IF IsNan(p) \/ IsNan(q) THEN XNan
    ELSE IF IsInf(p) /\ IsInf(q) THEN (IF p[1] = q[1] THEN p ELSE XNan)
    ELSE IF IsInf(p) THEN p
    ELSE IF IsInf(q) THEN q
    ELSE Reduce(p[1] * q[2] + q[1] * p[2], p[2] * q[2])
XNeg(p) == <<-p[1], p[2]>>
XSub(p, q) == XAdd(p, XNeg(q))
XMul(p, q) ==
    IF IsNan(p) \/ IsNan(q) THEN XNan
    ELSE IF IsInf(p) \/ IsInf(q)
         THEN (IF p[1] = 0 \/ q[1] = 0 THEN XNan
               ELSE <<Sgn(p[1]) * Sgn(q[1]), 0>>)
    ELSE Reduce(p[1] * q[1], p[2] * q[2])
\* numpy's p / q: x/0 is inf or nan (a RuntimeWarning, not an exception).
XDiv(p, q) ==
    IF IsNan(p) \/ IsNan(q) THEN XNan
    ELSE IF IsInf(q) THEN (IF IsInf(p) THEN XNan ELSE <<0, 1>>)
    ELSE IF q[1] = 0 THEN (IF p[1] = 0 THEN XNan ELSE <<Sgn(p[1]), 0>>)
    ELSE XMul(p, <<q[2] * Sgn(q[1]), q[1] * Sgn(q[1])>>)
XAbs(p) == <<p[1] * Sgn(p[1]), p[2]>>
\* p < q and p = q as floats compare (nan is neither).
XLess(p, q) ==
    /\ ~IsNan(p) /\ ~IsNan(q)
    /\ IF IsInf(p) /\ IsInf(q) THEN p[1] < q[1]
       ELSE p[1] * q[2] < q[1] * p[2]
XEq(p, q) == ~IsNan(p) /\ ~IsNan(q) /\ ~XLess(p, q) /\ ~XLess(q, p)
\* A numpy array of the values f[1], ..., f[n], each computed once.
np_array(f) == <<>> \o f

\* np.max of a non-empty array: nan if any element is.
RECURSIVE XMax(_)
XMax(s) ==
    IF Len(s) = 1 THEN s[1]
    ELSE LET m == XMax(Tail(s))
         IN IF IsNan(Head(s)) \/ IsNan(m) THEN XNan
            ELSE IF XLess(Head(s), m) THEN m ELSE Head(s)

----------------------------------------------------------------------------
\* signals.py: autocorrelate

\* correlate(data, data, 'full')[size/2:][k]: the sum of data[i] * data[i+k].
RECURSIVE Correlation(_, _, _)
Correlation(d, k, i) ==
    IF i + k > Len(d) THEN 0
    ELSE d[i] * d[i + k] + Correlation(d, k, i + 1)

\* np.linspace(start, 1, num)[i]: arange(num) * step + start.
np_linspace(start, num, i) ==
    IF num = 1 THEN start
    ELSE XAdd(XMul(<<i, 1>>, XDiv(XSub(<<1, 1>>, start), <<num - 1, 1>>)),
              start)

\* if unbias == 1: coefficients /= (N - np.arange(N))
\* elif unbias == 2: coefficients /= np.linspace(coefficients[0] /
\*                                               coefficients[-1], 1, N)
Unbiased(c, how) ==
    LET N == Len(c)
        coefficient_ratio == XDiv(c[1], c[N])
    IN IF how = 1
       THEN np_array([k \in 1..N |-> XDiv(c[k], <<N - (k - 1), 1>>)])
       ELSE IF how = 2
       THEN np_array([k \in 1..N |->
                XDiv(c[k], np_linspace(coefficient_ratio, N, k - 1))])
       ELSE c

\* Mutant: the divisor of normalize == 2 taken from the last coefficient.
NormalizerLast(c, how) ==
    IF how = 1 THEN XAbs(c[1]) ELSE XAbs(c[Len(c)])

\* The divisor of the normalization: np.abs(coefficients[0]) for 1,
\* np.max(np.abs(coefficients)) for 2.
Normalizer(c, how) ==
    IF how = 1 THEN XAbs(c[1])
    ELSE XMax(np_array([k \in 1..Len(c) |-> XAbs(c[k])]))

Normalized(c, how) ==
    LET divisor == Normalizer(c, how)
    IN IF how = 0 THEN c
       ELSE np_array([k \in 1..Len(c) |-> XDiv(c[k], divisor)])

autocorrelate(d, unbias_, normalize_) ==
    LET raw == np_array([k \in 1..Len(d) |->
                            <<Correlation(d, k - 1, 1), 1>>])
    IN Normalized(Unbiased(raw, unbias_), normalize_)

----------------------------------------------------------------------------
\* extractors/pyGait.py: gait_regularity_symmetry and gait

\* Mutant: every difference taken from the first element.
DiffsFromFirst(s) ==
    np_array([i \in 1..(Len(s) - 1) |-> XSub(s[i + 1], s[1])])

\* [s[i] - s[i-1] for i in range(1, np.size(s))]
Diffs(s) == np_array([i \in 1..(Len(s) - 1) |-> XSub(s[i + 1], s[i])])

RECURSIVE XSum(_)
XSum(s) == IF s = <<>> THEN <<0, 1>> ELSE XAdd(Head(s), XSum(Tail(s)))

\* np.mean: nan for an empty list (a RuntimeWarning, not an exception).
np_mean(s) == IF s = <<>> THEN XNan ELSE XDiv(XSum(s), <<Len(s), 1>>)

\* np.std squared: the mean of the squared deviations, nan for an empty list.
np_var(s) ==
    LET mean == np_mean(s)
        dev == np_array([i \in 1..Len(s) |-> XSub(s[i], mean)])
    IN np_mean(np_array([i \in 1..Len(s) |-> XMul(dev[i], dev[i])]))

\* s[first::2] for first = 0 or 1.
EveryOther(s, first) ==
    np_array([i \in 1..((Len(s) - first + 1) \div 2) |->
                 s[first + 2 * i - 1]])

\* int(p), the integer numpy makes of a float used as an index: p truncated
\* toward zero.
Truncate(p) == Sgn(p[1]) * ((p[1] * Sgn(p[1])) \div p[2])

\* coefficients[lag] for a float lag: nan and inf have no integer value and
\* an index outside -N..N-1 is out of bounds (the exception type depends on
\* the numpy version); a negative index in range counts from the end.
CoefficientAt(c, lag) ==
    IF ~IsFinite(lag) THEN [error |-> "ValueError", value |-> XNone]
    ELSE IF Truncate(lag) < -Len(c) \/ Truncate(lag) >= Len(c)
    THEN [error |-> "IndexError", value |-> XNone]
    ELSE [error |-> "none", value |-> PyIndex(c, Truncate(lag))]

\* The results of gait_regularity_symmetry from the two coefficients read:
\* [error, step_regularity, stride_regularity, symmetry].
RegularityOf(a1, a2) ==
    IF a1.error # "none"
    THEN [error |-> a1.error, step_regularity |-> XNone,
          stride_regularity |-> XNone, symmetry |-> XNone]
    ELSE IF a2.error # "none"
    THEN [error |-> a2.error, step_regularity |-> XNone,
          stride_regularity |-> XNone, symmetry |-> XNone]
    ELSE [error |-> "none", step_regularity |-> a1.value,
          stride_regularity |-> a2.value,
          symmetry |-> XAbs(XSub(a2.value, a1.value))]

\* The coefficients are computed once, then read at the two lags.
gait_regularity_symmetry(d, step_period_, stride_period_) ==
    CHOOSE r \in {RegularityOf(CoefficientAt(c, step_period_),
                               CoefficientAt(c, stride_period_)) :
                     c \in {autocorrelate(d, 2, 2)}} : TRUE

----------------------------------------------------------------------------
\* extractors/pyGait.py: heel_strikes

\* The default threshold of heel_strikes, 0.2, as ThresholdNum / ThresholdDen.
ThresholdNum == 1
ThresholdDen == 5

\* np.max and np.argmax (first index of the maximum, 0-based).
RECURSIVE np_max(_)
np_max(s) ==
    IF Len(s) = 1 THEN s[1]
    ELSE IF Head(s) >= np_max(Tail(s)) THEN Head(s) ELSE np_max(Tail(s))
np_argmax(s) == (CHOOSE i \in 1..Len(s) :
                    /\ s[i] = np_max(s)
                    /\ \A j \in 1..(i - 1) : s[j] # np_max(s)) - 1

\* seq[start:stop] in Python: negative bounds count from the end, bounds
\* are clipped to the sequence.
PyBound(i, n) == IF i < 0 THEN (IF i + n < 0 THEN 0 ELSE i + n)
                 ELSE IF i > n THEN n ELSE i
PySlice(seq, start, stop) ==
    LET lo == PyBound(start, Len(seq))
        hi == PyBound(stop, Len(seq))
    IN IF lo >= hi THEN <<>> ELSE SubSeq(seq, lo + 1, hi)

\* data -= np.mean(data), kept exact: every sample times len(data).
Demeaned(d) == [i \in 1..Len(d) |-> Len(d) * d[i] - np_sum(d)]

\* Mutant: the window runs up to and including the closing crossing.
RECURSIVE CoarsePeaksThroughCrossing(_, _, _)
CoarsePeaksThroughCrossing(f, trans, i) ==
    IF i >= Len(trans) THEN <<>>
    ELSE LET first == trans[i]
             segment == PySlice(f, first, trans[i + 1] + 1)
             imax == np_argmax(segment)
             peak == first + imax
         IN (IF f[peak + 1] * ThresholdDen
                    > Abs(ThresholdNum * np_max(f))
             THEN <<peak>> ELSE <<>>)
            \o CoarsePeaksThroughCrossing(f, trans, i + 1)

\* The loop over the windows between crossings from window i on.
RECURSIVE CoarsePeaksFrom(_, _, _)
CoarsePeaksFrom(f, trans, i) ==
    IF i >= Len(trans) THEN <<>>
    ELSE LET first == trans[i]
             segment == PySlice(f, first, trans[i + 1])
             imax == np_argmax(segment)
             peak == first + imax
         IN (IF f[peak + 1] * ThresholdDen
                    > Abs(ThresholdNum * np_max(f))
             THEN <<peak>> ELSE <<>>)
            \o CoarsePeaksFrom(f, trans, i + 1)

\* The refinement loop: [error, value] with the indices found before an
\* np.argmax of an empty window raises ValueError.
RECURSIVE RefineFrom(_, _, _, _)
RefineFrom(d, smooth, decel, acc) ==
    IF smooth = <<>> THEN [error |-> "none", value |-> acc]
    ELSE LET ismooth == Head(smooth)
             window == PySlice(d, ismooth - decel, ismooth + decel)
         IN IF window = <<>>
            THEN [error |-> "ValueError", value |-> acc]
            ELSE RefineFrom(d, Tail(smooth), decel,
                            Append(acc, np_argmax(window) + ismooth - decel))

SampleRates == {1, 2}

AccelVals == {0, 1}
AccelSignals == UNION {[1..n -> AccelVals] : n \in 1..GaitLen}

HsInit ==
    /\ hs_input \in AccelSignals
    /\ hs_data = hs_input
    /\ filtered = <<>>
    /\ transitions = <<>>
    /\ strike_indices_smooth = <<>>
    /\ interpeak = 0
    /\ strike_indices = <<>>
    /\ strikes = <<>>
    /\ hs_error = "none"
    /\ hs_pc = "start"

\* data -= np.mean(data): in place, on the caller's array.
Demean ==
    /\ hs_pc = "start"
    /\ hs_data' = Demeaned(hs_data)
    /\ hs_pc' = "demeaned"
    /\ UNCHANGED <<hs_input, filtered, transitions, strike_indices_smooth,
                   interpeak, strike_indices, strikes, hs_error>>
    /\ UNCHANGED <<sdfvars, extvars>>

LowpassFilter ==
    /\ hs_pc = "demeaned"
    /\ filtered' \in butter_lowpass_filter(hs_data)
    /\ hs_pc' = "filtered"
    /\ UNCHANGED <<hs_input, hs_data, transitions, strike_indices_smooth,
                   interpeak, strike_indices, strikes, hs_error>>
    /\ UNCHANGED <<sdfvars, extvars>>

FindTransitions ==
    /\ hs_pc = "filtered"
    /\ transitions' = crossings_nonzero_pos2neg(filtered)
    /\ hs_pc' = "crossed"
    /\ UNCHANGED <<hs_input, hs_data, filtered, strike_indices_smooth,
                   interpeak, strike_indices, strikes, hs_error>>
    /\ UNCHANGED <<sdfvars, extvars>>

CoarsePeaks ==
    /\ hs_pc = "crossed"
    /\ strike_indices_smooth' = CoarsePeaksFrom(filtered, transitions, 1)
    /\ hs_pc' = "coarse"
    /\ UNCHANGED <<hs_input, hs_data, filtered, transitions, interpeak,
                   strike_indices, strikes, hs_error>>
    /\ UNCHANGED <<sdfvars, extvars>>

ComputeInterpeak ==
    /\ hs_pc = "coarse"
    /\ \E r \in compute_interpeak(hs_data) :
           /\ interpeak' = r.value
           /\ hs_error' = r.error
           /\ hs_pc' = IF r.error = "none" THEN "interpeak" ELSE "raised"
    /\ UNCHANGED <<hs_input, hs_data, filtered, transitions,
                   strike_indices_smooth, strike_indices, strikes>>
    /\ UNCHANGED <<sdfvars, extvars>>

RefinePeaks ==
    /\ hs_pc = "interpeak"
    /\ LET r == RefineFrom(hs_data, strike_indices_smooth,
                           interpeak \div 2, <<>>)
       IN /\ strike_indices' = r.value
          /\ hs_error' = r.error
          /\ hs_pc' = IF r.error = "none" THEN "refined" ELSE "raised"
    /\ UNCHANGED <<hs_input, hs_data, filtered, transitions,
                   strike_indices_smooth, interpeak, strikes>>
    /\ UNCHANGED <<sdfvars, extvars>>

\* strikes = np.asarray(strike_indices); strikes -= strikes[0];
\* strikes = strikes / sample_rate
ReturnStrikes ==
    /\ hs_pc = "refined"
    /\ IF strike_indices = <<>>
       THEN /\ hs_error' = "IndexError"
            /\ hs_pc' = "raised"
            /\ UNCHANGED strikes
       ELSE /\ \E sample_rate \in SampleRates :
                   strikes' = [i \in 1..Len(strike_indices) |->
                                  Quot(strike_indices[i] - strike_indices[1],
                                       sample_rate)]
            /\ hs_pc' = "returned"
            /\ UNCHANGED hs_error
    /\ UNCHANGED <<hs_input, hs_data, filtered, transitions,
                   strike_indices_smooth, interpeak, strike_indices>>
    /\ UNCHANGED <<sdfvars, extvars>>

vars == <<sdfvars, hsvars, extvars>>

\* heel_strikes not called.
HsIdle ==
    /\ hs_input = <<>>
    /\ hs_data = <<>>
    /\ filtered = <<>>
    /\ transitions = <<>>
    /\ strike_indices_smooth = <<>>
    /\ interpeak = 0
    /\ strike_indices = <<>>
    /\ strikes = <<>>
    /\ hs_error = "none"
    /\ hs_pc = "idle"

\* sdf_features not called.
SdfIdle ==
    /\ data = <<>>
    /\ number_of_symbols = 2
    /\ pi_matrix_flag = FALSE
    /\ partition = <<>>
    /\ symbols = <<>>
    /\ morph_matrix = <<>>
    /\ pvec = <<>>
    /\ feature = <<>>
    /\ pc = "idle"

\* A call of sdf_features.
Init == SdfInit /\ HsIdle /\ ExtIdle

Next ==
    \/ MaxEntropyPartition
    \/ GenerateSymbolSequence
    \/ AnalyzeSymbolSequence
    \/ SdfFeatures

Spec == Init /\ [][Next]_vars

\* A call of heel_strikes.
GaitInit == HsInit /\ SdfIdle /\ ExtIdle

GaitNext ==
    \/ Demean
    \/ LowpassFilter
    \/ FindTransitions
    \/ CoarsePeaks
    \/ ComputeInterpeak
    \/ RefinePeaks
    \/ ReturnStrikes

SpecGait == GaitInit /\ [][GaitNext]_vars

\* A call of autocorrelate: unbias and normalize are None (0), 1, 2 or a
\* value the function rejects (3).
AcVals == {-1, 0, 1, 2}
AcSignals == UNION {[1..n -> AcVals] : n \in 1..AcLen}

AcInit ==
    /\ ac_data \in AcSignals
    /\ unbias \in 0..3
    /\ normalize \in 0..3
    /\ coefficients = <<>>
    /\ ac_error = "none"
    /\ ac_pc = "start"

Autocorrelate ==
    /\ ac_pc = "start"
    /\ IF unbias = 3 \/ normalize = 3
       THEN /\ ac_error' = "IOError"
            /\ ac_pc' = "raised"
            /\ UNCHANGED coefficients
       ELSE /\ coefficients' = autocorrelate(ac_data, unbias, normalize)
            /\ ac_pc' = "returned"
            /\ UNCHANGED ac_error
    /\ UNCHANGED <<ac_data, unbias, normalize>>
    /\ UNCHANGED <<sdfvars, hsvars, gaitvars, tapvars, wdvars,
                   civars, bfvars, pjvars>>

AcNext ==
    \/ Autocorrelate

AutocorrelateInit ==
    AcInit /\ SdfIdle /\ HsIdle /\ GaitIdle /\ TapIdle /\ WdIdle
        /\ CiIdle /\ BfIdle /\ PjIdle

SpecAutocorrelate == AutocorrelateInit /\ [][AcNext]_vars

\* A call of gait(strikes, data, duration, distance): strike times in
\* ticks of 1/sample_rate seconds, in any order (heel_strikes does not sort
\* them).  The arguments data and distance are drawn where gait first reads
\* them.
GaitVals == {-1, 0, 1}
GaitData == UNION {[1..n -> GaitVals] : n \in 1..GaitDataLen}
StrikeTicks == UNION {[1..n -> 0..MaxTick] : n \in 0..MaxStrikes}
Durations == {2, 3}
Distances == {0, 2}

GInit ==
    /\ \E ticks \in StrikeTicks, sample_rate \in SampleRates :
           g_strikes = np_array([i \in 1..Len(ticks) |->
                                    Reduce(ticks[i], sample_rate)])
    /\ g_data = <<>>
    /\ duration \in Durations
    /\ distance = 0
    /\ GaitUnset
    /\ g_pc = "start"

\* Step durations, cadence, strides and their statistics.
GaitDurations ==
    /\ g_pc = "start"
    /\ step_durations' = Diffs(g_strikes)
    /\ avg_step_duration' = np_mean(Diffs(g_strikes))
    /\ sd_step_durations' = np_var(Diffs(g_strikes))
    /\ number_of_steps' = Len(g_strikes)
    /\ cadence' = XDiv(<<Len(g_strikes), 1>>, <<duration, 1>>)
    /\ LET strides1 == EveryOther(g_strikes, 0)
           strides2 == EveryOther(g_strikes, 1)
           stride_durations1 == Diffs(strides1)
           stride_durations2 == Diffs(strides2)
       IN /\ strides' = <<strides1, strides2>>
          /\ stride_durations' = <<stride_durations1, stride_durations2>>
          /\ avg_number_of_strides' =
                 np_mean(<<<<Len(strides1), 1>>, <<Len(strides2), 1>>>>)
          /\ avg_stride_duration' =
                 np_mean(<<np_mean(stride_durations1),
                           np_mean(stride_durations2)>>)
          /\ sd_stride_durations' =
                 <<np_var(stride_durations1), np_var(stride_durations2)>>
    /\ g_pc' = "measured"
    /\ UNCHANGED <<g_strikes, g_data, duration, distance, step_period,
                   stride_period, step_regularity, stride_regularity,
                   symmetry, distance_measures, g_error>>
    /\ UNCHANGED <<sdfvars, hsvars, acvars, tapvars, wdvars,
                   civars, bfvars, pjvars>>

\* step_period = 1 / avg_step_duration; stride_period = 1 /
\* avg_stride_duration
GaitPeriods ==
    /\ g_pc = "measured"
    /\ step_period' = XDiv(<<1, 1>>, avg_step_duration)
    /\ stride_period' = XDiv(<<1, 1>>, avg_stride_duration)
    /\ g_pc' = "periods"
    /\ UNCHANGED <<g_strikes, g_data, duration, distance, step_durations,
                   avg_step_duration, sd_step_durations, number_of_steps,
                   cadence, strides, stride_durations, avg_number_of_strides,
                   avg_stride_duration, sd_stride_durations, step_regularity,
                   stride_regularity, symmetry, distance_measures, g_error>>
    /\ UNCHANGED <<sdfvars, hsvars, acvars, tapvars, wdvars,
                   civars, bfvars, pjvars>>

GaitRegularity ==
    /\ g_pc = "periods"
    /\ g_data' \in GaitData
    /\ \E r \in {gait_regularity_symmetry(g_data', step_period,
                                          stride_period)} :
          /\ step_regularity' = r.step_regularity
          /\ stride_regularity' = r.stride_regularity
          /\ symmetry' = r.symmetry
          /\ g_error' = r.error
          /\ g_pc' = IF r.error = "none" THEN "regular" ELSE "raised"
    /\ UNCHANGED <<g_strikes, duration, distance, step_durations,
                   avg_step_duration, sd_step_durations, number_of_steps,
                   cadence, strides, stride_durations, avg_number_of_strides,
                   avg_stride_duration, sd_stride_durations, step_period,
                   stride_period, distance_measures>>
    /\ UNCHANGED <<sdfvars, hsvars, acvars, tapvars, wdvars,
                   civars, bfvars, pjvars>>

\* The distance-based measures, then the return.
GaitReturn ==
    /\ g_pc = "regular"
    /\ distance' \in Distances
    /\ distance_measures' =
           IF distance' # 0
           THEN <<XDiv(<<distance', 1>>, <<duration, 1>>),
                  XDiv(<<number_of_steps, 1>>, <<distance', 1>>),
                  XDiv(avg_number_of_strides, <<distance', 1>>)>>
           ELSE <<XNone, XNone, XNone>>
    /\ g_pc' = "returned"
    /\ UNCHANGED <<g_strikes, g_data, duration, step_durations,
                   avg_step_duration, sd_step_durations, number_of_steps,
                   cadence, strides, stride_durations, avg_number_of_strides,
                   avg_stride_duration, sd_stride_durations, step_period,
                   stride_period, step_regularity, stride_regularity,
                   symmetry, g_error>>
    /\ UNCHANGED <<sdfvars, hsvars, acvars, tapvars, wdvars,
                   civars, bfvars, pjvars>>

GaitFeaturesNext ==
    \/ GaitDurations
    \/ GaitPeriods
    \/ GaitRegularity
    \/ GaitReturn

GaitFeaturesInit ==
    GInit /\ SdfIdle /\ HsIdle /\ AcIdle /\ TapIdle /\ WdIdle
        /\ CiIdle /\ BfIdle /\ PjIdle

SpecGaitFeatures == GaitFeaturesInit /\ [][GaitFeaturesNext]_vars

----------------------------------------------------------------------------
\* extractors/tapping.py.  Of the features, the counts and the time range
\* are modelled; t is the ramp 0, 1, ..., n-1 and the statistics of
\* signal_features only by whether they raise (np.min of an empty array).

\* ipress = np.where(np.abs(dx) > threshold): the 0-based indices i with
\* |xtaps[i+1] - xtaps[i]| > threshold.
PressEvents(xtaps, threshold) ==
    np_nonzero([i \in 1..(Len(xtaps) - 1) |->
                   Abs(xtaps[i + 1] - xtaps[i]) > threshold], 0)

\* a[index] for an array of indices.
Take(a, index) == np_array([k \in 1..Len(index) |-> a[index[k] + 1]])

\* The locals of compute_tap_features the modelled features are read from.
TapLocals(xtaps, threshold) ==
    LET ipress == PressEvents(xtaps, threshold)
        t == Take([i \in 1..Len(xtaps) |-> i - 1], ipress)
        x == Take(xtaps, ipress)
        xL == SelectSeq(x, LAMBDA v : Len(x) * v < np_sum(x))
        xR == SelectSeq(x, LAMBDA v : Len(x) * v >= np_sum(x))
    IN [t |-> t, xtaps |-> x, xL |-> xL, xR |-> xR,
        intervals |-> np_array([i \in 1..(Len(t) - 1) |-> t[i + 1] - t[i]])]

\* The class attributes after the assignments of one call, and the exception
\* that ends it: the attributes assigned before the exception stay.
TapAssignments(T, loc) ==
    LET counted == [T EXCEPT !.num_taps = <<Len(loc.xtaps), 1>>,
                             !.num_taps_left = <<Len(loc.xL), 1>>,
                             !.num_taps_right = <<Len(loc.xR), 1>>]
        timed == [counted EXCEPT
                     !.time_rng = <<loc.t[Len(loc.t)] - loc.t[1], 1>>]
        all == [timed EXCEPT !.intertap_num = <<Len(loc.intervals), 1>>]
    IN IF loc.t = <<>>
       THEN [error |-> "IndexError", T |-> counted]
       ELSE IF loc.intervals = <<>>
       THEN [error |-> "ValueError", T |-> timed]
       ELSE IF Len(loc.xL) < 2 \/ Len(loc.xR) < 2
       THEN [error |-> "ValueError", T |-> all]
       ELSE [error |-> "none", T |-> all]

TapXs == {0, 1, 2}
TapThresholds == {0, 1}

\* A call of compute_tap_features(xtaps, ytaps, t, threshold): T is the
\* class itself, the features are assigned to the class, the class is
\* returned.
ComputeTapFeatures ==
    /\ Len(tap_inputs) < MaxCalls
    /\ \E n \in 1..MaxTaps :
         \E xtaps \in [1..n -> TapXs], threshold \in TapThresholds :
           \E r \in {TapAssignments(TapFeatures,
                                    TapLocals(xtaps, threshold))} :
               /\ TapFeatures' = r.T
               /\ tap_error' = r.error
               /\ tap_inputs' = Append(tap_inputs, <<xtaps, threshold>>)
               /\ tap_returned' =
                      Append(tap_returned,
                             IF r.error = "none" THEN "TapFeatures"
                             ELSE "raised")
    /\ UNCHANGED <<sdfvars, hsvars, acvars, gaitvars, wdvars,
                   civars, bfvars, pjvars>>

TapNext ==
    \/ ComputeTapFeatures

\* No call of compute_tap_features yet.
TappingInit ==
    TapIdle /\ SdfIdle /\ HsIdle /\ AcIdle /\ GaitIdle /\ WdIdle
        /\ CiIdle /\ BfIdle /\ PjIdle

SpecTapping == TappingInit /\ [][TapNext]_vars

----------------------------------------------------------------------------
\* extractors/pyGait.py: walk_direction_preheel.  The returned direction
\* v / sqrt(v.v) is kept as the pair <<v, v.v>>.

\* The samples of one axis at the indices lo..hi-1 of range(lo, hi), as
\* quotients: [error, value], IndexError for an index outside the axis.
RowsOf(axis, lo, hi) ==
    IF \E i \in lo..(hi - 1) : i < -Len(axis) \/ i >= Len(axis)
    THEN [error |-> "IndexError", value |-> <<>>]
    ELSE [error |-> "none",
          value |-> np_array([k \in 1..(hi - lo) |->
                                 <<PyIndex(axis, lo + k - 1), 1>>])]

\* np.mean(decel_vectors, axis=0) for the deceleration phase before ipeak.
DecelVector(x, y, z, ipeak, decel) ==
    LET rx == RowsOf(x, ipeak - decel, ipeak)
        ry == RowsOf(y, ipeak - decel, ipeak)
        rz == RowsOf(z, ipeak - decel, ipeak)
    IN IF rx.error # "none" THEN [error |-> rx.error, value |-> <<>>]
       ELSE [error |-> "none",
             value |-> <<np_mean(rx.value), np_mean(ry.value),
                         np_mean(rz.value)>>]

\* The loop over ipeaks: [error, value] with the vectors appended.
RECURSIVE DecelVectors(_, _, _, _, _)
DecelVectors(x, y, z, peaks, decel) ==
    IF peaks = <<>> THEN [error |-> "none", value |-> <<>>]
    ELSE LET v == DecelVector(x, y, z, Head(peaks), decel)
             rest == DecelVectors(x, y, z, Tail(peaks), decel)
         IN IF v.error # "none" THEN v
            ELSE IF rest.error # "none" THEN rest
            ELSE [error |-> "none", value |-> <<v.value>> \o rest.value]

\* v.dot(w)
Dot(v, w) == XSum(np_array([c \in 1..Len(v) |-> XMul(v[c], w[c])]))

\* direction = -1 * np.mean(vectors, axis=0); direction /= sqrt(dot)
Direction(vecs) ==
    LET m == np_array([c \in 1..3 |->
                 XNeg(np_mean(np_array([k \in 1..Len(vecs) |-> vecs[k][c]])))])
    IN <<m, Dot(m, m)>>

\* The squared Euclidean norm of v / sqrt(s): v.v / s, nan for s = 0.
NormSquared(dir) == XDiv(Dot(dir[1], dir[1]), dir[2])

AxisVectors == {<<1, 0, 0>>, <<-1, 0, 0>>, <<0, 2, 0>>}
StrideFractions == {<<1, 8>>, <<1, 2>>}

\* data = np.abs(ax) + np.abs(ay) + np.abs(az), and the call of heel_strikes
\* on it.
WdInit ==
    /\ \E a \in [1..WdLen -> AxisVectors] :
           /\ ax = np_array([i \in 1..WdLen |-> a[i][1]])
           /\ ay = np_array([i \in 1..WdLen |-> a[i][2]])
           /\ az = np_array([i \in 1..WdLen |-> a[i][3]])
    /\ hs_input = np_array([i \in 1..WdLen |->
                               Abs(ax[i]) + Abs(ay[i]) + Abs(az[i])])
    /\ hs_data = hs_input
    /\ filtered = <<>>
    /\ transitions = <<>>
    /\ strike_indices_smooth = <<>>
    /\ interpeak = 0
    /\ strike_indices = <<>>
    /\ strikes = <<>>
    /\ hs_error = "none"
    /\ hs_pc = "start"
    /\ stride_fraction = XNone
    /\ wd_decel = 0
    /\ ipeaks = <<>>
    /\ vectors = <<>>
    /\ direction = <<<<>>, XNone>>
    /\ wd_error = "none"
    /\ wd_pc = "heel_strikes"

\* An exception of heel_strikes leaves walk_direction_preheel.
WdHeelStrikesRaised ==
    /\ wd_pc = "heel_strikes"
    /\ hs_pc = "raised"
    /\ wd_error' = hs_error
    /\ wd_pc' = "raised"
    /\ UNCHANGED <<ax, ay, az, stride_fraction, wd_decel, ipeaks, vectors,
                   direction>>
    /\ UNCHANGED <<sdfvars, hsvars, acvars, gaitvars, tapvars,
                   civars, bfvars, pjvars>>

\* interpeak = compute_interpeak(data, sample_rate), the value heel_strikes
\* got from the same array; decel; the loop over ipeaks_smooth, the second
\* result of heel_strikes.
WdRefinePeaks ==
    /\ wd_pc = "heel_strikes"
    /\ hs_pc = "returned"
    /\ stride_fraction' \in StrideFractions
    /\ wd_decel' = RoundHalfEven(stride_fraction'[1] * interpeak,
                                 stride_fraction'[2])
    /\ \E r \in {RefineFrom(hs_data, strike_indices, wd_decel', <<>>)} :
           /\ ipeaks' = r.value
           /\ wd_error' = r.error
           /\ wd_pc' = IF r.error = "none" THEN "peaks" ELSE "raised"
    /\ UNCHANGED <<ax, ay, az, vectors, direction>>
    /\ UNCHANGED <<sdfvars, hsvars, acvars, gaitvars, tapvars,
                   civars, bfvars, pjvars>>

\* The deceleration vectors, their mean, the unit vector and the return.
WdDirection ==
    /\ wd_pc = "peaks"
    /\ \E r \in {DecelVectors(ax, ay, az, ipeaks, wd_decel)} :
           /\ vectors' = r.value
           /\ wd_error' = r.error
           /\ IF r.error = "none"
              THEN /\ direction' = Direction(r.value)
                   /\ wd_pc' = "returned"
              ELSE /\ UNCHANGED direction
                   /\ wd_pc' = "raised"
    /\ UNCHANGED <<ax, ay, az, stride_fraction, wd_decel, ipeaks>>
    /\ UNCHANGED <<sdfvars, hsvars, acvars, gaitvars, tapvars,
                   civars, bfvars, pjvars>>

WdNext ==
    \/ Demean
    \/ LowpassFilter
    \/ FindTransitions
    \/ CoarsePeaks
    \/ ComputeInterpeak
    \/ RefinePeaks
    \/ ReturnStrikes
    \/ WdHeelStrikesRaised
    \/ WdRefinePeaks
    \/ WdDirection

WalkDirectionInit ==
    WdInit /\ SdfIdle /\ AcIdle /\ GaitIdle /\ TapIdle
        /\ CiIdle /\ BfIdle /\ PjIdle

SpecWalkDirection == WalkDirectionInit /\ [][WdNext]_vars

----------------------------------------------------------------------------
\* heel_strikes on whole cycles of a triangular wave of period 8, filtered
\* with order = 2 and cutoff = sample_rate / 4 (normal_cutoff = 0.5).

\* butter(2, 0.5): b = b0 * [1, 2, 1] and a = [1, 0, a2] with
\* a2 = 3 - 2 sqrt(2) = 0.1716 and b0 = (1 + a2) / 4 = 0.2929, kept to four
\* decimals.
ButterScale == 10000
ButterB0 == 2929
ButterA2 == 1716

\* lfilter(b, a, x)[0:n], times ButterScale:
\* y[i] = b0 (x[i] + 2 x[i-1] + x[i-2]) - a2 y[i-2], zero initial state.
RECURSIVE lfilter(_, _)
lfilter(x, n) ==
    IF n = 0 THEN <<>>
    ELSE LET y == lfilter(x, n - 1)
             taps == x[n] + (IF n >= 2 THEN 2 * x[n - 1] ELSE 0)
                          + (IF n >= 3 THEN x[n - 2] ELSE 0)
             prev == IF n >= 3 THEN y[n - 2] ELSE 0
             \* a2 * prev, rounded down to the scale, in two parts to stay
             \* within 32 bits.
             back == ButterA2 * (prev \div ButterScale)
                         + (ButterA2 * (prev % ButterScale)) \div ButterScale
         IN Append(y, ButterB0 * taps - back)

TriangleCycle == <<0, 1, 2, 1, 0, -1, -2, -1>>
\* ScenarioCycles cycles of the wave, from sample phase of the cycle on.
TriangleWave(phase, amplitude) ==
    np_array([i \in 1..(8 * ScenarioCycles) |->
                 amplitude * TriangleCycle[((i - 1 + phase) % 8) + 1]])

ScenarioInit ==
    /\ \E phase \in 0..7, amplitude \in 1..MaxAmplitude :
           hs_input = TriangleWave(phase, amplitude)
    /\ hs_data = hs_input
    /\ filtered = <<>>
    /\ transitions = <<>>
    /\ strike_indices_smooth = <<>>
    /\ interpeak = 0
    /\ strike_indices = <<>>
    /\ strikes = <<>>
    /\ hs_error = "none"
    /\ hs_pc = "start"
    /\ SdfIdle
    /\ ExtIdle

\* filtered = butter_lowpass_filter(data, sample_rate, cutoff, order) with
\* order = 2 and cutoff = sample_rate / 4.
LowpassFilterOrder2 ==
    /\ hs_pc = "demeaned"
    /\ filtered' = lfilter(hs_data, Len(hs_data))
    /\ hs_pc' = "filtered"
    /\ UNCHANGED <<hs_input, hs_data, transitions, strike_indices_smooth,
                   interpeak, strike_indices, strikes, hs_error>>
    /\ UNCHANGED <<sdfvars, extvars>>

ScenarioNext ==
    \/ Demean
    \/ LowpassFilterOrder2
    \/ FindTransitions
    \/ CoarsePeaks
    \/ ComputeInterpeak
    \/ RefinePeaks
    \/ ReturnStrikes

SpecScenario == ScenarioInit /\ [][ScenarioNext]_vars

----------------------------------------------------------------------------
\* A call of compute_interpeak(data, sample_rate).  The result does not
\* depend on sample_rate: sample_rate / |freqs[i]| is n / |bin|.

CiVals == {-1, 0, 1, 2}
CiSignals == UNION {[1..n -> CiVals] : n \in 1..CiLen}

CiInit ==
    /\ ci_data \in CiSignals
    /\ ci_interpeak = 0
    /\ ci_error = "none"
    /\ ci_pc = "start"
    /\ SdfIdle /\ HsIdle
    /\ AcIdle /\ GaitIdle /\ TapIdle /\ WdIdle /\ BfIdle /\ PjIdle

ComputeInterpeakCall ==
    /\ ci_pc = "start"
    /\ \E r \in compute_interpeak(ci_data) :
           /\ ci_interpeak' = r.value
           /\ ci_error' = r.error
           /\ ci_pc' = IF r.error = "none" THEN "returned" ELSE "raised"
    /\ UNCHANGED ci_data
    /\ UNCHANGED <<sdfvars, hsvars, acvars, gaitvars, tapvars, wdvars,
                   bfvars, pjvars>>

CiNext ==
    \/ ComputeInterpeakCall

SpecInterpeak == CiInit /\ [][CiNext]_vars

----------------------------------------------------------------------------
\* A call of butter_lowpass_filter(data, sample_rate, cutoff, order).

BfVals == {-1, 0, 1}
BfSignals == UNION {[1..n -> BfVals] : n \in 1..BfLen}
BfSampleRates == {1, 2, 4}
BfCutoffs == -1..3

\* normal_cutoff = cutoff / (0.5 * sample_rate) lies strictly between 0 and 1.
ValidFilterSpec(cutoff, sample_rate) ==
    0 < 2 * cutoff /\ 2 * cutoff < sample_rate

\* What scipy's butter does with normal_cutoff: the releases that check it
\* raise ValueError outside [0, 1] (later ones also at 0 and 1), the others
\* compute coefficients from any value.
butter(cutoff, sample_rate) ==
    IF ValidFilterSpec(cutoff, sample_rate) THEN {"none"}
    ELSE {"ValueError", "none"}

BfInit ==
    /\ bf_data \in BfSignals
    /\ bf_sample_rate \in BfSampleRates
    /\ bf_cutoff \in BfCutoffs
    /\ bf_y = <<>>
    /\ bf_error = "none"
    /\ bf_pc = "start"
    /\ SdfIdle /\ HsIdle
    /\ AcIdle /\ GaitIdle /\ TapIdle /\ WdIdle /\ CiIdle /\ PjIdle

ButterLowpassFilter ==
    /\ bf_pc = "start"
    /\ \E e \in butter(bf_cutoff, bf_sample_rate) :
           /\ bf_error' = e
           /\ IF e = "none"
              THEN /\ bf_y' \in butter_lowpass_filter(bf_data)
                   /\ bf_pc' = "returned"
              ELSE /\ bf_y' = bf_y
                   /\ bf_pc' = "raised"
    /\ UNCHANGED <<bf_data, bf_sample_rate, bf_cutoff>>
    /\ UNCHANGED <<sdfvars, hsvars, acvars, gaitvars, tapvars, wdvars,
                   civars, pjvars>>

BfNext ==
    \/ ButterLowpassFilter

SpecFilter == BfInit /\ [][BfNext]_vars

----------------------------------------------------------------------------
\* extractors/pyGait.py: walk_direction_attitude, project_axes and the two
\* project_walk_direction_* functions.  Quaternions and unit vectors are
\* kept in fifths (<<3, 0, 0, 4>> is (0.6, 0, 0, 0.8)), so that they can have
\* norm 1; products carry the squares of that scale.

\* quaternion_rotation_matrix(q) for q = (w, x, y, z), rows r1, r2, r3.
quaternion_rotation_matrix(q) ==
    LET r11 == q[1] * q[1] + q[2] * q[2] - q[3] * q[3] - q[4] * q[4]
        r12 == 2 * q[2] * q[3] + 2 * q[1] * q[4]
        r13 == 2 * q[2] * q[4] - 2 * q[1] * q[3]
        r21 == 2 * q[2] * q[3] - 2 * q[1] * q[4]
        r22 == q[1] * q[1] - q[2] * q[2] + q[3] * q[3] - q[4] * q[4]
        r23 == 2 * q[3] * q[4] + 2 * q[1] * q[2]
        r31 == 2 * q[2] * q[4] + 2 * q[1] * q[3]
        r32 == 2 * q[3] * q[4] - 2 * q[1] * q[2]
        r33 == q[1] * q[1] - q[2] * q[2] - q[3] * q[3] + q[4] * q[4]
    IN <<<<r11, r12, r13>>, <<r21, r22, r23>>, <<r31, r32, r33>>>>

\* v.dot(w) and np.dot(rot, v) on integers.
np_dot(v, w) == np_sum([c \in 1..Len(v) |-> v[c] * w[c]])
np_dot_matrix(rot, v) == np_array([r \in 1..Len(rot) |-> np_dot(rot[r], v)])

rotate_with_attitude(attitude, acceleration) ==
    np_dot_matrix(quaternion_rotation_matrix(attitude), acceleration)

\* The loop of walk_direction_attitude: one rotated vector per sample.
walk_direction_attitude(acc, att) ==
    np_array([i \in 1..Len(acc) |-> rotate_with_attitude(att[i], acc[i])])

\* One pass of the loop of project_axes.  unit_vectors[i] is a 3-vector, or
\* a number (kept as <<u>>) when unit_vectors is itself one vector: then
\* v.dot(u) is v * u and the product with u is taken again.
ProjectOne(v, unit_vector) ==
    IF Len(unit_vector) = 1
    THEN np_array([c \in 1..Len(v) |->
                      (v[c] * unit_vector[1]) * unit_vector[1]])
    ELSE np_array([c \in 1..Len(unit_vector) |->
                      np_dot(v, unit_vector) * unit_vector[c]])

\* project_axes(vectors, unit_vectors): [error, value]; unit_vectors[i]
\* raises IndexError past the end of unit_vectors.
RECURSIVE project_axes(_, _)
project_axes(vectors_, unit_vectors) ==
    IF vectors_ = <<>> THEN [error |-> "none", value |-> <<>>]
    ELSE IF unit_vectors = <<>>
    THEN [error |-> "IndexError", value |-> <<>>]
    ELSE LET rest == project_axes(Tail(vectors_), Tail(unit_vectors))
         IN [error |-> rest.error,
             value |-> IF rest.error = "none"
                       THEN <<ProjectOne(Head(vectors_), Head(unit_vectors))>>
                                \o rest.value
                       ELSE <<>>]

AccelVectors == {<<1, 0, 0>>, <<0, 1, 0>>, <<0, 0, 1>>, <<1, -1, 2>>}
\* Attitudes, in fifths; the last one has norm 2.
Quaternions ==
    {<<5, 0, 0, 0>>, <<3, 4, 0, 0>>, <<3, 0, 4, 0>>, <<3, 0, 0, 4>>,
     <<0, 3, -4, 0>>, <<0, 0, 10, 0>>}
\* Unit vectors walk_direction_preheel can return, in fifths.
UnitDirections ==
    {<<5, 0, 0>>, <<0, 0, -5>>, <<3, 4, 0>>, <<0, -4, 3>>}

PjInit ==
    /\ strategy \in {"attitude", "preheel"}
    /\ \E n \in 1..(IF strategy = "attitude" THEN AttitudeLen ELSE PreheelLen) :
           /\ accel \in [1..n -> AccelVectors]
           /\ attitudes \in IF strategy = "attitude"
                            THEN [1..n -> Quaternions] ELSE {<<>>}
    /\ directions = <<>>
    /\ projection_vectors = <<>>
    /\ pj_error = "none"
    /\ pj_pc = "start"
    /\ SdfIdle /\ HsIdle
    /\ AcIdle /\ GaitIdle /\ TapIdle /\ WdIdle /\ CiIdle /\ BfIdle

\* directions = walk_direction_attitude(ax, ay, az, uw, ux, uy, uz)
WalkDirectionAttitude ==
    /\ pj_pc = "start"
    /\ strategy = "attitude"
    /\ directions' = walk_direction_attitude(accel, attitudes)
    /\ pj_pc' = "directed"
    /\ UNCHANGED <<strategy, accel, attitudes, projection_vectors, pj_error>>
    /\ UNCHANGED <<sdfvars, hsvars, acvars, gaitvars, tapvars, wdvars,
                   civars, bfvars>>

\* directions = walk_direction_preheel(...): one vector, an array of three
\* numbers.
WalkDirectionPreheel ==
    /\ pj_pc = "start"
    /\ strategy = "preheel"
    /\ \E u \in UnitDirections :
           directions' = <<<<u[1]>>, <<u[2]>>, <<u[3]>>>>
    /\ pj_pc' = "directed"
    /\ UNCHANGED <<strategy, accel, attitudes, projection_vectors, pj_error>>
    /\ UNCHANGED <<sdfvars, hsvars, acvars, gaitvars, tapvars, wdvars,
                   civars, bfvars>>

\* vectors = project_axes(zip(ax, ay, az), directions)
ProjectAxes ==
    /\ pj_pc = "directed"
    /\ \E r \in {project_axes(accel, directions)} :
           /\ projection_vectors' = r.value
           /\ pj_error' = r.error
           /\ pj_pc' = IF r.error = "none" THEN "returned" ELSE "raised"
    /\ UNCHANGED <<strategy, accel, attitudes, directions>>
    /\ UNCHANGED <<sdfvars, hsvars, acvars, gaitvars, tapvars, wdvars,
                   civars, bfvars>>

PjNext ==
    \/ WalkDirectionAttitude
    \/ WalkDirectionPreheel
    \/ ProjectAxes

SpecProjection == PjInit /\ [][PjNext]_vars

\* A call of heel_strikes on a recording long enough for several windows
\* between crossings: one impulse on a flat signal of WalkLen samples.
Impulse(at, n) == [i \in 1..n |-> IF i = at THEN 1 ELSE 0]
WalkSignals == {Impulse(at, WalkLen) : at \in 1..WalkLen}

WalkInit ==
    /\ hs_input \in WalkSignals
    /\ hs_data = hs_input
    /\ filtered = <<>>
    /\ transitions = <<>>
    /\ strike_indices_smooth = <<>>
    /\ interpeak = 0
    /\ strike_indices = <<>>
    /\ strikes = <<>>
    /\ hs_error = "none"
    /\ hs_pc = "start"
    /\ SdfIdle
    /\ ExtIdle

SpecWalk == WalkInit /\ [][GaitNext]_vars

----------------------------------------------------------------------------
\* Vocabulary of the properties below.

\* Number of positions of seq holding v.
CountOf(seq, v) == Cardinality({i \in 1..Len(seq) : seq[i] = v})

\* v is the k-th smallest sample of d (1-based rank, ties share ranks).
IsKthSmallest(v, k, d) ==
    /\ Cardinality({i \in 1..Len(d) : d[i] < v}) < k
    /\ k <= Cardinality({i \in 1..Len(d) : d[i] <= v})

\* d is sorted with a constant positive spacing.
EvenlySpaced(d) ==
    \E step \in 1..MaxVal :
        \A i \in 1..(Len(d) - 1) : d[i + 1] = d[i] + step

Distinct(d) == \A i, j \in 1..Len(d) : i # j => d[i] # d[j]

Analyzed == pc \in {"analyzed", "done"}
Symbolized == pc \in {"symbolized", "analyzed", "done"}
Partitioned == pc # "start"

\* s is the origin (destination) of some transition of the sequence.
IsOrigin(s, syms) == \E i \in 1..(Len(syms) - 1) : syms[i] = s
IsDestination(s, syms) == \E i \in 2..Len(syms) : syms[i] = s

RawCounts == TransitionCounts(symbols, number_of_symbols, pi_matrix_flag)

\* C1 (as claimed): for any signal and any K >= 2 the stationary vector sums
\* to 1 and, when the matrix is requested, every row of the normalized morph
\* matrix sums to 1.
C1_Stochastic ==
    Analyzed =>
        /\ QuotIsOne(QuotSum(pvec))
        /\ pi_matrix_flag =>
               \A istate \in 1..number_of_symbols :
                   QuotIsOne(QuotSum(morph_matrix[istate]))

\* C2 (as claimed): on a sorted, evenly spaced signal of length N with K
\* dividing N, every one of the K symbols is assigned to exactly N/K samples.
C2_EqualBins ==
    (Symbolized /\ EvenlySpaced(data) /\ Len(data) % number_of_symbols = 0) =>
        \A s \in 1..number_of_symbols :
            CountOf(symbols, s) = Len(data) \div number_of_symbols

\* C2 (amended): on such a signal symbol 1 is assigned to N/K - 1 samples,
\* symbol K to N/K + 1 samples and every symbol between them to N/K samples,
\* because a sample equal to a boundary falls in the bin above it.
C2_ShiftedBins ==
    (Symbolized /\ EvenlySpaced(data) /\ Len(data) % number_of_symbols = 0) =>
        \A s \in 1..number_of_symbols :
            CountOf(symbols, s) =
                (Len(data) \div number_of_symbols)
                + (IF s = 1 THEN -1 ELSE 0)
                + (IF s = number_of_symbols THEN 1 ELSE 0)

C2_Witness ==
    /\ Symbolized /\ EvenlySpaced(data)
    /\ Len(data) = 2 * number_of_symbols
    /\ CountOf(symbols, 1) = 1

\* The rows of the returned matrix are the raw rows normalized as the claim
\* says: a zero-sum row became pvec, any other row its counts over its sum.
RowsNormalized ==
    \A istate \in 1..number_of_symbols :
        LET raw == RawCounts.morph_matrix[istate]
        IN IF np_sum(raw) = 0
           THEN morph_matrix[istate] = pvec
           ELSE \A j \in 1..number_of_symbols :
                    morph_matrix[istate][j] = <<raw[j], np_sum(raw)>>

\* C3 (as claimed): a row of the raw matrix sums to zero exactly when its
\* symbol is never the origin of a transition; exactly those rows are
\* replaced by pvec and the others divided by their sum.
C3_ZeroRowIffNeverOrigin ==
    (Analyzed /\ pi_matrix_flag) =>
        /\ \A s \in 1..number_of_symbols :
               (np_sum(RawCounts.morph_matrix[s]) = 0) <=> ~IsOrigin(s, symbols)
        /\ RowsNormalized

\* C3 (amended): a row of the raw matrix sums to zero exactly when its symbol
\* is never the destination of a transition (rows are indexed by the
\* destination); exactly those rows are replaced by pvec and the others
\* divided by their sum.
C3_ZeroRowIffNeverDestination ==
    (Analyzed /\ pi_matrix_flag) =>
        /\ \A s \in 1..number_of_symbols :
               (np_sum(RawCounts.morph_matrix[s]) = 0)
                   <=> ~IsDestination(s, symbols)
        /\ RowsNormalized

C3_Witness ==
    /\ Analyzed /\ pi_matrix_flag
    /\ \E s, t \in 1..number_of_symbols :
           /\ IsOrigin(s, symbols) /\ ~IsDestination(s, symbols)
           /\ morph_matrix[s] = pvec
           /\ IsDestination(t, symbols)
           /\ QuotIsOne(QuotSum(morph_matrix[t]))

\* The docstring example of max_entropy_partition, samples times 10^8.
DocData ==
    <<82487374, 21834812, 60166418, 76465689, 44819955, 72335342,
      87101130, 73258881, 97047932, 59750580, 2474567, 38093561>>
DocPartition == <<38093561, 60166418, 76465689>>

\* The documented partition is the one computed, made of the 3rd, 6th and 9th
\* smallest samples.
DocExample ==
    /\ max_entropy_partition(DocData, Len(DocPartition) + 1) = DocPartition
    /\ \A j \in 1..Len(DocPartition) :
           IsKthSmallest(DocPartition[j], 3 * j, DocData)

C5_Increasing ==
    Partitioned =>
        \A j \in 1..(Len(partition) - 1) :
            /\ partition[j] <= partition[j + 1]
            /\ Distinct(data) => partition[j] < partition[j + 1]

\* C6 (as claimed): one symbol per sample, each in 1..K and the 1-based index
\* of the first boundary strictly above the sample (+infinity being boundary
\* K); a sample equal to boundary j gets a symbol above j.
C6_FirstBoundaryAbove ==
    Symbolized =>
        /\ Len(symbols) = Len(data)
        /\ \A i \in 1..Len(data) :
               LET bounds == partition \o <<Inf>>
                   s == symbols[i]
               IN /\ s \in 1..number_of_symbols
                  /\ bounds[s] > data[i]
                  /\ \A j \in 1..(s - 1) : bounds[j] <= data[i]
                  /\ \A j \in 1..Len(partition) :
                         data[i] = partition[j] => s > j

\* C7: with the flag set the feature has K*K elements and element a*K+b
\* (0-based) is morph[b][a]; without it the feature is the K-element pvec.
C7_FeatureLayout ==
    pc = "done" =>
        IF pi_matrix_flag
        THEN /\ Len(feature) = number_of_symbols * number_of_symbols
             /\ \A a, b \in 0..(number_of_symbols - 1) :
                    feature[a * number_of_symbols + b + 1]
                        = morph_matrix[b + 1][a + 1]
        ELSE /\ Len(feature) = number_of_symbols
             /\ feature = pvec

C7_Witness ==
    /\ pc = "done" /\ pi_matrix_flag
    /\ \E a, b \in 1..number_of_symbols :
           morph_matrix[a][b] # morph_matrix[b][a]

\* pvec times the matrix, component a.
VecMat(pv, mm, a) ==
    QuotSum([b \in 1..Len(pv) |-> QuotMul(pv[b], mm[b][a])])

\* C8 (as claimed): for a sequence with at least one transition, pvec times
\* the returned morph matrix is pvec again.
C8_Eigenvector ==
    (Analyzed /\ pi_matrix_flag /\ Len(symbols) >= 2) =>
        \A a \in 1..number_of_symbols :
            QuotEq(VecMat(pvec, morph_matrix, a), pvec[a])

Crossed == hs_pc \in {"crossed", "coarse", "interpeak", "refined", "returned"}

Range(seq) == {seq[i] : i \in 1..Len(seq)}

\* C9: the crossings are, in strictly increasing order, exactly the indices
\* i in 0..N-2 with signal[i] > 0 and signal[i+1] <= 0; none is an empty
\* result, not an exception.
C9_Crossings ==
    Crossed =>
        /\ \A k \in 1..(Len(transitions) - 1) :
               transitions[k] < transitions[k + 1]
        /\ Range(transitions) =
               {i \in 0..(Len(filtered) - 2) :
                   filtered[i + 1] > 0 /\ filtered[i + 2] <= 0}
        /\ hs_error = "none"

C9_Witness ==
    /\ hs_pc = "crossed"
    /\ Len(transitions) = 2
    /\ filtered[transitions[1] + 2] = 0
    /\ filtered[transitions[2] + 2] < 0

C9_WitnessEmpty ==
    /\ hs_pc = "crossed"
    /\ transitions = <<>>
    /\ \E i \in 1..Len(filtered) : filtered[i] > 0

HsFinished == hs_pc \in {"returned", "raised"}

\* C10 (as claimed): when no window between crossings yields an event (no
\* crossing, a single crossing, or no peak above the threshold) heel_strikes
\* returns an empty set of events and does not raise.
C10_EmptyNotRaised ==
    (HsFinished /\ strike_indices_smooth = <<>>) =>
        /\ hs_pc = "returned"
        /\ hs_error = "none"
        /\ strikes = <<>>

\* C12 (as claimed): the strike indices heel_strikes returns are strictly
\* increasing, and the strike times start at 0 and are (index - first index)
\* / sample_rate.
C12_StrictlyIncreasing ==
    hs_pc = "returned" =>
        /\ \A k \in 1..(Len(strike_indices) - 1) :
               strike_indices[k] < strike_indices[k + 1]
        /\ Len(strikes) = Len(strike_indices)
        /\ strikes[1][1] = 0
        /\ \E sample_rate \in SampleRates :
               \A k \in 1..Len(strikes) :
                   strikes[k] = <<strike_indices[k] - strike_indices[1],
                                  sample_rate>>

\* The part of C12 about the times alone.
C12_TimesRebased ==
    hs_pc = "returned" =>
        /\ Len(strikes) = Len(strike_indices)
        /\ strikes[1][1] = 0
        /\ \E sample_rate \in SampleRates :
               \A k \in 1..Len(strikes) :
                   strikes[k] = <<strike_indices[k] - strike_indices[1],
                                  sample_rate>>

\* C13 (as claimed): heel_strikes leaves the caller's array as it was: once
\* it has returned, data holds the samples it held at the call (hs_data is
\* kept times len(data), see Demeaned).
C13_InputUnchanged ==
    hs_pc = "returned" =>
        \A i \in 1..Len(hs_input) : hs_data[i] = Len(hs_input) * hs_input[i]

\* The samples are not all equal.
NonConstant(d) == \E i, j \in 1..Len(d) : d[i] # d[j]

\* C19: without unbiasing and with either normalization, the zero-lag
\* coefficient of a non-constant signal is exactly 1.
C19_ZeroLagOne ==
    (ac_pc = "returned" /\ unbias = 0 /\ normalize \in {1, 2}
        /\ NonConstant(ac_data)) =>
        /\ Len(coefficients) = Len(ac_data)
        /\ XEq(coefficients[1], <<1, 1>>)

C19_Witness ==
    /\ ac_pc = "returned" /\ unbias = 0 /\ normalize = 2
    /\ NonConstant(ac_data)
    /\ XEq(coefficients[1], <<1, 1>>)
    /\ \E k \in 2..Len(coefficients) :
           /\ XLess(coefficients[k], <<0, 1>>)
           /\ ~XEq(coefficients[k], coefficients[Len(coefficients)])

GaitFinished == g_pc \in {"returned", "raised"}
GaitMeasured == g_pc \in {"measured", "periods", "regular", "returned",
                          "raised"}
GaitRegular == g_pc \in {"regular", "returned"}

\* C11 (as claimed): with 0 or 1 strike times gait returns without raising
\* and reports every duration-based metric as None.
C11_NoneNotRaised ==
    (GaitFinished /\ Len(g_strikes) < 2) =>
        /\ g_pc = "returned"
        /\ g_error = "none"
        /\ avg_step_duration = XNone
        /\ sd_step_durations = XNone
        /\ avg_stride_duration = XNone
        /\ step_regularity = XNone
        /\ stride_regularity = XNone
        /\ symmetry = XNone

\* C15: for n >= 1 strike times and duration d, gait computes cadence = n/d
\* and n-1 step durations, the i-th being strikes[i] - strikes[i-1], and
\* these are the values it returns.
C15_CadenceAndSteps ==
    (GaitMeasured /\ Len(g_strikes) >= 1) =>
        /\ number_of_steps = Len(g_strikes)
        /\ cadence[1] * duration = Len(g_strikes) * cadence[2]
        /\ Len(step_durations) = Len(g_strikes) - 1
        /\ \A i \in 1..(Len(g_strikes) - 1) :
               XEq(XAdd(g_strikes[i], step_durations[i]), g_strikes[i + 1])

C15_Witness ==
    /\ g_pc = "returned"
    /\ Len(g_strikes) = 4
    /\ Len(step_durations) = 3
    /\ XLess(step_durations[1], step_durations[2])
    /\ XLess(<<1, 1>>, cadence)

\* The strides and their durations as the claim describes them.
StridesAlternate ==
    /\ Len(strides[1]) = (Len(g_strikes) + 1) \div 2
    /\ Len(strides[2]) = Len(g_strikes) \div 2
    /\ \A i \in 1..Len(strides[1]) : strides[1][i] = g_strikes[2 * i - 1]
    /\ \A i \in 1..Len(strides[2]) : strides[2][i] = g_strikes[2 * i]
    /\ \A j \in 1..2 :
           /\ Len(stride_durations[j]) =
                  (IF strides[j] = <<>> THEN 0 ELSE Len(strides[j]) - 1)
           /\ \A i \in 1..Len(stride_durations[j]) :
                  XEq(XAdd(strides[j][i], stride_durations[j][i]),
                      strides[j][i + 1])
    /\ XEq(XAdd(avg_number_of_strides, avg_number_of_strides),
           <<Len(strides[1]) + Len(strides[2]), 1>>)

\* C16 (as claimed): the strides are the alternating subsequences, the
\* stride count and duration are means over the two, and with at least 3
\* strike times both are finite numbers.
C16_StrideMetrics ==
    GaitMeasured =>
        /\ StridesAlternate
        /\ Len(g_strikes) >= 3 =>
               /\ IsFinite(avg_number_of_strides)
               /\ IsFinite(avg_stride_duration)
               /\ XEq(XAdd(avg_stride_duration, avg_stride_duration),
                      XAdd(np_mean(stride_durations[1]),
                           np_mean(stride_durations[2])))

\* The part of C16 that describes the computation, and the stride duration
\* from 4 strike times on.
C16_StridesFromFour ==
    GaitMeasured =>
        /\ StridesAlternate
        /\ Len(g_strikes) >= 4 =>
               /\ IsFinite(avg_number_of_strides)
               /\ IsFinite(avg_stride_duration)
               /\ XEq(XAdd(avg_stride_duration, avg_stride_duration),
                      XAdd(np_mean(stride_durations[1]),
                           np_mean(stride_durations[2])))

\* round(p) read either way on a half: to the even neighbour (numpy) or away
\* from zero (Python 2).
RoundedLags(p) ==
    {Sgn(p[1]) * RoundHalfEven(p[1] * Sgn(p[1]), p[2]),
     Sgn(p[1]) * ((2 * p[1] * Sgn(p[1]) + p[2]) \div (2 * p[2]))}

\* C17 (as claimed): the regularities are the autocorrelation coefficients
\* at the lags round(step_period) and round(stride_period), the periods
\* being the inverses of the mean durations, and symmetry is the absolute
\* difference of the two.
C17_RoundedLags ==
    GaitRegular =>
        LET c == autocorrelate(g_data, 2, 2)
        IN /\ step_period = XDiv(<<1, 1>>, np_mean(step_durations))
           /\ stride_period =
                  XDiv(<<1, 1>>, np_mean(<<np_mean(stride_durations[1]),
                                           np_mean(stride_durations[2])>>))
           /\ \E lag \in RoundedLags(step_period) :
                  lag \in 0..(Len(c) - 1) /\ step_regularity = c[lag + 1]
           /\ \E lag \in RoundedLags(stride_period) :
                  lag \in 0..(Len(c) - 1) /\ stride_regularity = c[lag + 1]
           /\ symmetry = XAbs(XSub(stride_regularity, step_regularity))

\* C18 (as claimed): a coefficient is only ever read at a lag that is a
\* valid index 0..N-1 of the autocorrelation; any other lag makes the
\* regularity computation fail.
C18_LagOutOfRange ==
    GaitRegular =>
        /\ Truncate(step_period) \in 0..(Len(g_data) - 1)
        /\ Truncate(stride_period) \in 0..(Len(g_data) - 1)

\* The attributes read through a returned reference.
Deref(ref) == TapFeatures

\* C14 (as claimed): the object returned by a call of compute_tap_features
\* keeps the features computed from that call's arguments, whatever calls
\* come after it.
C14_NoSharedState ==
    \A i \in 1..Len(tap_returned) :
        tap_returned[i] = "TapFeatures" =>
            Deref(tap_returned[i]) =
                TapAssignments(UnsetFeatures,
                               TapLocals(tap_inputs[i][1],
                                         tap_inputs[i][2])).T

WdFinished == wd_pc \in {"returned", "raised"}
\* heel_strikes found no event: its strikes[0] raised on the empty array.
NoEventDetected == hs_pc = "raised" /\ hs_error = "IndexError"
EventDetected == hs_pc = "returned"

\* C20 (as claimed): with at least one heel strike detected,
\* walk_direction_preheel returns a vector of Euclidean norm 1; with none it
\* fails with an InsufficientEvents error.
C20_UnitNormOrInsufficient ==
    WdFinished =>
        /\ EventDetected =>
               /\ wd_pc = "returned"
               /\ XEq(NormSquared(direction), <<1, 1>>)
        /\ NoEventDetected =>
               /\ wd_pc = "raised"
               /\ wd_error = "InsufficientEvents"

\* The parts of C20, one by one (auxiliary).
C20_ReturnedIsUnit ==
    wd_pc = "returned" => XEq(NormSquared(direction), <<1, 1>>)
C20_EventsReturn == (WdFinished /\ EventDetected) => wd_pc = "returned"
C20_NoEventError ==
    (WdFinished /\ NoEventDetected) => wd_error = "InsufficientEvents"
C20_UnitReached ==
    wd_pc = "returned" /\ XEq(NormSquared(direction), <<1, 1>>)

\* The positions i in 1..N-1 (0-based) of the pairs (s_{i-1}, s_i) with
\* origin a, and with origin a and destination b.
PairsFrom(a, syms) == {i \in 2..Len(syms) : syms[i - 1] = a}
PairsFromTo(a, b, syms) == {i \in 2..Len(syms) : syms[i - 1] = a /\ syms[i] = b}
ColumnSum(mm, a) == np_sum([b \in 1..Len(mm) |-> mm[b][a]])

\* C30: before normalization, pvec[a] is the number of pairs with origin a
\* and, with the matrix requested, morph[b][a] the number of pairs (a, b); so
\* pvec sums to N-1, column a of morph sums to pvec[a], and the last symbol
\* is not counted as an origin.  The returned pvec is these counts over
\* their sum.
C30_RawCounts ==
    Analyzed =>
        /\ \A a \in 1..number_of_symbols :
               /\ RawCounts.pvec[a] = Cardinality(PairsFrom(a, symbols))
               /\ pi_matrix_flag =>
                      /\ \A b \in 1..number_of_symbols :
                             RawCounts.morph_matrix[b][a]
                                 = Cardinality(PairsFromTo(a, b, symbols))
                      /\ ColumnSum(RawCounts.morph_matrix, a)
                             = RawCounts.pvec[a]
        /\ np_sum(RawCounts.pvec) = Len(symbols) - 1
        /\ \A a \in 1..number_of_symbols :
               pvec[a] = Quot(RawCounts.pvec[a], Len(symbols) - 1)

\* A sequence whose last symbol occurs only there: it is counted as a
\* destination and never as an origin.
C30_Witness ==
    /\ Analyzed /\ pi_matrix_flag
    /\ Len(symbols) >= 3
    /\ ~IsOrigin(symbols[Len(symbols)], symbols)
    /\ pvec[symbols[Len(symbols)]] = <<0, Len(symbols) - 1>>
    /\ \E a \in 1..number_of_symbols : RawCounts.pvec[a] >= 2

CoarseFound == hs_pc \in {"coarse", "interpeak", "refined", "returned"}

\* The 0-based indices of the k-th window between consecutive crossings, and
\* whether the filtered signal attains the window's maximum at p.
WindowOf(k) == transitions[k]..(transitions[k + 1] - 1)
IsWindowMax(p, k) ==
    /\ p \in WindowOf(k)
    /\ \A q \in WindowOf(k) : filtered[q + 1] <= filtered[p + 1]
\* filtered[p] > threshold * max(filtered), threshold = 0.2.
AboveThreshold(p) ==
    filtered[p + 1] * ThresholdDen > ThresholdNum * np_max(filtered)

\* C27: every coarse event is an argmax of the filtered signal over a window
\* between two consecutive positive-to-negative crossings; a window's
\* argmax is retained if and only if its value exceeds threshold *
\* max(filtered); each window yields at most one coarse event.
C27_CoarseEvents ==
    CoarseFound =>
        /\ \A j \in 1..Len(strike_indices_smooth) :
               \E k \in 1..(Len(transitions) - 1) :
                   /\ IsWindowMax(strike_indices_smooth[j], k)
                   /\ AboveThreshold(strike_indices_smooth[j])
        /\ \A k \in 1..(Len(transitions) - 1) :
               /\ (\E p \in WindowOf(k) : AboveThreshold(p))
                      => \E j \in 1..Len(strike_indices_smooth) :
                             IsWindowMax(strike_indices_smooth[j], k)
               /\ Cardinality({j \in 1..Len(strike_indices_smooth) :
                                  strike_indices_smooth[j] \in WindowOf(k)})
                      <= 1

\* Two windows: the peak of one is retained, the peak of the other is not.
C27_Witness ==
    /\ hs_pc = "coarse"
    /\ Len(transitions) = 3
    /\ Len(strike_indices_smooth) = 1
    /\ \E k \in 1..2 : \A p \in WindowOf(k) : ~AboveThreshold(p)

Refined == hs_pc \in {"refined", "returned"}

\* The 0-based indices c - decel .. c + decel that lie in the signal, for the
\* coarse peak c and decel = interpeak // 2.
ClippedWindow(c) ==
    {q \in 0..(Len(hs_data) - 1) :
        c - (interpeak \div 2) <= q /\ q <= c + (interpeak \div 2)}

\* C28 (as claimed): the refined index of every coarse peak c is a valid
\* index within [c - decel, c + decel] at which the demeaned signal is
\* maximal over that window clipped to the signal; the window is never
\* empty, so the refinement does not fail.
C28_RefinedInWindow ==
    /\ Refined =>
           /\ Len(strike_indices) = Len(strike_indices_smooth)
           /\ \A j \in 1..Len(strike_indices) :
                  /\ strike_indices[j] \in ClippedWindow(strike_indices_smooth[j])
                  /\ \A q \in ClippedWindow(strike_indices_smooth[j]) :
                         hs_data[q + 1] <= hs_data[strike_indices[j] + 1]
    /\ ~(hs_pc = "raised" /\ hs_error = "ValueError")

\* The parts of C28, one by one (auxiliary).
C28_NeverEmpty == ~(hs_pc = "raised" /\ hs_error = "ValueError")
C28_ValidIndex ==
    Refined => \A j \in 1..Len(strike_indices) :
                   strike_indices[j] \in 0..(Len(hs_data) - 1)
C28_WithinWindow ==
    Refined => \A j \in 1..Len(strike_indices) :
                   strike_indices[j] \in ClippedWindow(strike_indices_smooth[j])

\* The two cycles of the wave that start at its first sample.
TwoCycles == \E amplitude \in 1..MaxAmplitude :
                 hs_input = TriangleWave(0, amplitude)

\* C26 (as claimed): on two full cycles of the wave, both peaks above the
\* threshold, heel_strikes finds exactly 2 events, about one cycle (8
\* samples) apart: one event for every cycle.
C26_TwoEvents ==
    (TwoCycles /\ ScenarioCycles = 2) =>
        /\ CoarseFound => Len(strike_indices_smooth) = 2
        /\ HsFinished =>
               /\ hs_pc = "returned"
               /\ Len(strike_indices) = 2
               /\ strike_indices[2] - strike_indices[1] \in 7..9

\* What the code finds (auxiliary): the first cycle has no crossing before
\* it, so n cycles give n - 1 windows and n - 1 coarse events.
C26_OneEventLess ==
    (TwoCycles /\ CoarseFound) =>
        /\ Len(transitions) = ScenarioCycles
        /\ Len(strike_indices_smooth) = ScenarioCycles - 1

\* The mean of the samples of one axis at the 0-based indices lo..hi-1.
MeanOver(axis, lo, hi) ==
    np_mean(np_array([k \in 1..(hi - lo) |-> <<axis[lo + k], 1>>]))

\* C29 (as claimed): the vector averaged for an event at index p is the mean
\* of the samples p - decel .. p - 1 of the three axes, all of them indices
\* in 0..N-1 just before the event, also for an event closer than decel
\* samples to the start.
C29_PrecedingSamples ==
    wd_pc = "returned" =>
        \A k \in 1..Len(ipeaks) :
            /\ 0 <= ipeaks[k] - wd_decel
            /\ ipeaks[k] - 1 <= Len(ax) - 1
            /\ vectors[k] =
                   <<MeanOver(ax, ipeaks[k] - wd_decel, ipeaks[k]),
                     MeanOver(ay, ipeaks[k] - wd_decel, ipeaks[k]),
                     MeanOver(az, ipeaks[k] - wd_decel, ipeaks[k])>>

\* The same for the events at least decel samples after the start
\* (auxiliary).
C29_PrecedingSamplesFromDecel ==
    wd_pc = "returned" =>
        \A k \in 1..Len(ipeaks) :
            0 <= ipeaks[k] - wd_decel =>
                /\ ipeaks[k] - 1 <= Len(ax) - 1
                /\ vectors[k] =
                       <<MeanOver(ax, ipeaks[k] - wd_decel, ipeaks[k]),
                         MeanOver(ay, ipeaks[k] - wd_decel, ipeaks[k]),
                         MeanOver(az, ipeaks[k] - wd_decel, ipeaks[k])>>

CiFinished == ci_pc \in {"returned", "raised"}
Flat(d) == \A i, j \in 1..Len(d) : d[i] = d[j]

\* C24 (as claimed): compute_interpeak fails with a DegenerateSignal error
\* when the signal has fewer than 4 samples or is flat (the selected
\* frequency is zero); it never divides by a zero frequency.
C24_DegenerateSignal ==
    CiFinished =>
        /\ (Len(ci_data) < 4 \/ Flat(ci_data)) =>
               /\ ci_pc = "raised"
               /\ ci_error = "DegenerateSignal"
        /\ ci_error # "OverflowError"

\* The parts of C24, one by one (auxiliary).
C24_ShortFails == (CiFinished /\ Len(ci_data) < 4) => ci_pc = "raised"
C24_FlatFails == (CiFinished /\ Flat(ci_data)) => ci_pc = "raised"
C24_NoZeroFrequency == ci_error # "OverflowError"

\* The squared magnitude of the Fourier bin k of 4 samples (times 4).
BinPower(d, k) ==
    IF k = 1 THEN rfft(d)[2][1] * rfft(d)[2][1] + rfft(d)[3][1] * rfft(d)[3][1]
    ELSE rfft(d)[4][1] * rfft(d)[4][1]
DominantBins(d) ==
    {k \in 1..2 : \A m \in 1..2 : BinPower(d, m) <= BinPower(d, k)}
Periodic(d) == \E k \in 1..2 : BinPower(d, k) > 0

\* C25 (as claimed): compute_interpeak takes the Fourier bin of the largest
\* magnitude, the zero-frequency bin apart, and returns round(sample_rate /
\* frequency) for that bin's frequency: n / k samples for bin k of n samples
\* (here n = 4).
C25_DominantBin ==
    (CiFinished /\ Len(ci_data) = 4 /\ Periodic(ci_data)) =>
        /\ ci_pc = "returned"
        /\ \E k \in DominantBins(ci_data) :
               ci_interpeak = RoundHalfEven(4, k)

\* What compute_interpeak returns for 4 samples where no two values of the
\* transform are equal (auxiliary): the dominant bin is not what decides.
C25_UntiedSignal ==
    (CiFinished /\ ci_data = <<2, 1, 2, 0>>) =>
        /\ DominantBins(ci_data) = {2}
        /\ ci_pc = "returned"
        /\ ci_interpeak = 4

BfFinished == bf_pc \in {"returned", "raised"}

\* C23 (as claimed): butter_lowpass_filter fails with an InvalidFilterSpec
\* error whenever cutoff is not strictly between 0 and half the sample
\* rate, and for a valid spec returns as many samples as it was given.
C23_InvalidFilterSpec ==
    BfFinished =>
        IF ValidFilterSpec(bf_cutoff, bf_sample_rate)
        THEN bf_pc = "returned" /\ Len(bf_y) = Len(bf_data)
        ELSE bf_pc = "raised" /\ bf_error = "InvalidFilterSpec"

\* The part of C23 about the length (auxiliary).
C23_SameLength == bf_pc = "returned" => Len(bf_y) = Len(bf_data)

Directed == pj_pc \in {"directed", "returned", "raised"}
PjFinished == pj_pc \in {"returned", "raised"}

\* (v . u) * u
Projection(v, u) == <<np_dot(v, u) * u[1], np_dot(v, u) * u[2],
                      np_dot(v, u) * u[3]>>
\* The single direction of the pre-heel strategy as a 3-vector.
GlobalDirection == <<directions[1][1], directions[2][1], directions[3][1]>>

\* C21 (as claimed): project_axes maps every sample v to (v . u) * u, with u
\* the single direction of the pre-heel strategy or the direction of the
\* same index of the attitude strategy; there is one projected vector per
\* sample.
C21_Projection ==
    PjFinished =>
        /\ pj_pc = "returned"
        /\ Len(projection_vectors) = Len(accel)
        /\ \A i \in 1..Len(accel) :
               projection_vectors[i] =
                   Projection(accel[i],
                              IF strategy = "preheel" THEN GlobalDirection
                              ELSE directions[i])

\* C21 for the attitude strategy alone (auxiliary).
C21_PerSample ==
    (PjFinished /\ strategy = "attitude") =>
        /\ pj_pc = "returned"
        /\ Len(projection_vectors) = Len(accel)
        /\ \A i \in 1..Len(accel) :
               projection_vectors[i] = Projection(accel[i], directions[i])

\* The standard rotation matrix of the quaternion q = (w, x, y, z).
StandardRotation(q) ==
    LET w == q[1]
        x == q[2]
        y == q[3]
        z == q[4]
    IN <<<<w * w + x * x - y * y - z * z, 2 * (x * y - w * z),
           2 * (x * z + w * y)>>,
         <<2 * (x * y + w * z), w * w - x * x + y * y - z * z,
           2 * (y * z - w * x)>>,
         <<2 * (x * z - w * y), 2 * (y * z + w * x),
           w * w - x * x - y * y + z * z>>>>

\* C22 (as claimed): the matrix built from an attitude quaternion is the
\* standard one entry by entry, it is applied to each sample without
\* normalizing the quaternion, and there is one rotated vector per sample.
C22_StandardRotation ==
    (Directed /\ strategy = "attitude") =>
        /\ Len(directions) = Len(accel)
        /\ \A i \in 1..Len(accel) :
               /\ quaternion_rotation_matrix(attitudes[i])
                      = StandardRotation(attitudes[i])
               /\ directions[i] =
                      np_dot_matrix(StandardRotation(attitudes[i]), accel[i])

\* What the code builds (auxiliary): the transpose of the standard matrix,
\* applied per sample, not normalized.
C22_TransposedRotation ==
    (Directed /\ strategy = "attitude") =>
        /\ Len(directions) = Len(accel)
        /\ \A i \in 1..Len(accel) :
               /\ quaternion_rotation_matrix(attitudes[i])
                      = np_transpose(StandardRotation(attitudes[i]))
               /\ directions[i] =
                      np_dot_matrix(np_transpose(StandardRotation(attitudes[i])),
                                    accel[i])

====
